---- MODULE Spec2Model ----
(***************************************************************************)
(* Fighter state machine, combat resolution, AI policy and match loop of   *)
(* src/components/FightingGame.tsx.                                        *)
(*                                                                         *)
(* Number representation.  The source computes in IEEE doubles.  Every     *)
(* length, coordinate, velocity and hit-point quantity is held here as an  *)
(* integer count of TENTHS (x = 3000 is x = 300.0, hp = 8 is hp = 0.8).    *)
(* All additive constants of the source (gravity 0.8, speed * 0.2, damage  *)
(* * 0.1, damage * 1.5) are whole tenths, so sums are exact; the two       *)
(* multiplicative decays (vx *= 0.85, vx *= 0.7) are truncated towards 0   *)
(* to a whole tenth.  Energy, timers, cooldown, combo index and the match  *)
(* countdown are plain integers as in the source.                          *)
(***************************************************************************)
EXTENDS Integers, Sequences, FiniteSets, TLC

VARIABLES p1, p2, timer, gameOver, winner, paused, difficulty,
          gameStatus, winnerMessage, playerChar, selectedDifficulty, ticks,
          particles, hitEffects, shake, drawn,
          senseiWisdom, pending, lastResponse, matchNo, loopStatus, collision

vars == <<p1, p2, timer, gameOver, winner, paused, difficulty,
          gameStatus, winnerMessage, playerChar, selectedDifficulty, ticks,
          particles, hitEffects, shake, drawn,
          senseiWisdom, pending, lastResponse, matchNo, loopStatus,
                 collision>>

\* The fields of gameState.current.
gameState == <<p1, p2, particles, hitEffects, timer, gameOver, winner, paused,
               shake, difficulty>>

\* What the flavor-text request and its answer are kept in: the display
\* value, the requests in flight (each tagged with the number of the match
\* that issued it), the last answer of the external call, and the number of
\* the current match.  drawn tells whether the last scheduled frame called
\* draw.
display == <<senseiWisdom, pending, lastResponse, matchNo>>

\* gameStatus is React state: setGameStatus stores the new value at once, but
\* the running gameLoop is a closure over the gameStatus of the render that
\* scheduled it, and so are the buttons on screen.  loopStatus is that
\* rendered value; the effect on [gameStatus] brings it up to date.

(***************************************************************************)
(* Constants of the source (lengths in tenths).                            *)
(***************************************************************************)
CANVAS_WIDTH == 8000
CANVAS_HEIGHT == 4500
GRAVITY == 8
FLOOR_Y == 3800
HURT_W == 500
HURT_H == 1000
MATCH_SECONDS == 60

\* Bound of the exploration: frames per behaviour.
MaxTicks == 14

\* Bound of the exploration: frames explored after a rematch.
RematchTicks == 3

\* Bounds of the exploration of an ultimate: frames played before the
\* exploration starts, and frames explored from there.
QuietFrames == 1
UltTicks == 96

\* Frames explored with the attack trails drawn: one more than the longest
\* life of a particle that is not ink.
FxTicks == 14

\* The boxes handed to checkCollision on its own: corners and sizes from 0
\* to MaxCoord.
MaxCoord == 2

\* Frames explored of a match on Easy.
EasyTicks == 8

\* Frames explored around a pause.
PauseTicks == 3

\* Frames explored when both fighters can use their ultimate: past the
\* damage frame of the first one.
DuelTicks == 75

\* Frames explored of light combos: enough for the third hit of either style.
ComboTicks == 30

\* Frames explored of an ultimate that strikes a fighter out of a light combo.
KnockTicks == 136

\* Frames explored of jumps: a whole jump of the Wing Chun fighter (32 frames)
\* and the attack started at any point of it.
JumpTicks == 34

\* Frames explored of the neutral path: past the expiry of a heavy attack
\* (30 frames), whose cooldown (40) is then still running.
NeutralTicks == 32

\* Seconds left on the countdown where the exploration of its end starts.
LiveTimer == 3

\* Frames explored near the wall: an ultimate (its damage frame is the 70th
\* after the entry) and the slide of the fighter it strikes.
EdgeTicks == 80

\* Bounds of the exploration of the end of a match: the countdown at the
\* start and the frames per behaviour.
EndTimer == 2
EndTicks == 5

\* A hit-point value (tenths) that any clean hit brings to <= 0.
LowHp == 20

Styles == {"Tai Chi", "Wing Chun"}
Difficulties == {"Easy", "Medium", "Hard"}
NoBox == [none |-> TRUE]

\* TAI_CHI_STATS / WING_CHUN_STATS: the immutable part of a style's stats.
Stats(style) ==
  IF style = "Tai Chi"
    THEN [maxHp |-> 3000, maxEnergy |-> 100, speed |-> 40, jumpForce |-> 150,
          damageLight |-> 80, damageHeavy |-> 200]
    ELSE [maxHp |-> 2500, maxEnergy |-> 100, speed |-> 80, jumpForce |-> 130,
          damageLight |-> 60, damageHeavy |-> 180]

OtherStyle(style) == IF style = "Tai Chi" THEN "Wing Chun" ELSE "Tai Chi"

Min(a, b) == IF a <= b THEN a ELSE b

\* v * num / den on tenths, truncated towards zero (the decays vx *= 0.85, 0.7).
Scale(v, num, den) ==
  IF v >= 0 THEN (v * num) \div den ELSE 0 - (((0 - v) * num) \div den)

\* {x: 0, y: 0, w, h} as the attack entries create it (w, h in source units).
Box(x, y, w, h) == [x |-> x, y |-> y, w |-> w, h |-> h]

createFighter(id, x, isAi, style) ==
  [id |-> id, x |-> x, y |-> FLOOR_Y, vx |-> 0, vy |-> 0,
   facing |-> IF id = 1 THEN 1 ELSE -1,
   state |-> "IDLE", frameTimer |-> 0, comboIndex |-> 0,
   hp |-> Stats(style).maxHp, energy |-> 0, style |-> style,
   hitbox |-> NoBox, cooldown |-> 0, isAi |-> isAi]

\* Variant: the left edge compared with <=, so that boxes touching on that
\* side overlap.
checkCollision_TouchingLeft(r1, r2) ==
  /\ r1.x <= r2.x + r2.w
  /\ r1.x + r1.w > r2.x
  /\ r1.y < r2.y + r2.h
  /\ r1.y + r1.h > r2.y

checkCollision(r1, r2) ==
  /\ r1.x < r2.x + r2.w
  /\ r1.x + r1.w > r2.x
  /\ r1.y < r2.y + r2.h
  /\ r1.y + r1.h > r2.y

\* The box every attack tests against: the opponent's body footprint.
OppBox(o) == Box(o.x, o.y - HURT_H, HURT_W, HURT_H)

ArenaBox == Box(0, 0, CANVAS_WIDTH, CANVAS_HEIGHT)

NoInput == [left |-> FALSE, right |-> FALSE, up |-> FALSE, down |-> FALSE,
            atk1 |-> FALSE, atk2 |-> FALSE, ultimate |-> FALSE]

(***************************************************************************)
(* updateFighter, branch by branch.  Each branch takes the fighter after   *)
(* the cooldown decrement and the opponent, and returns both as the update *)
(* leaves them: [f |-> the fighter, o |-> the opponent].  Every            *)
(* intermediate value of the source is handed on as an operator argument.  *)
(***************************************************************************)

\* --- f.state === 'ULTIMATE' ---

\* Variant: the ultimate's damage phase lasting from timer 20 to timer 19.
UltimateHit_TwoFrames(f, o) ==
  IF f.frameTimer \in {19, 20} /\ checkCollision(ArenaBox, OppBox(o))
    THEN [o EXCEPT !.hp = @ - 800, !.state = "HIT", !.frameTimer = 60,
                   !.vx = f.facing * 300]
    ELSE o

\* Damage phase: at frameTimer === 20, the screen-wide hit check.
UltimateHit(f, o) ==
  IF f.frameTimer = 20 /\ checkCollision(ArenaBox, OppBox(o))
    THEN [o EXCEPT !.hp = @ - 800, !.state = "HIT", !.frameTimer = 60,
                   !.vx = f.facing * 300]
    ELSE o

UltimateEnd(f) == IF f.frameTimer <= 0 THEN [f EXCEPT !.state = "IDLE"] ELSE f

UpdUltimateAt(f, o) == [f |-> UltimateEnd(f), o |-> UltimateHit(f, o)]

UpdUltimate(f, o) ==
  UpdUltimateAt([f EXCEPT !.frameTimer = @ - 1, !.vx = 0, !.vy = 0], o)

\* --- f.state === 'COUNTER' ---

CounterLands(f, o) ==
  /\ f.hitbox # NoBox
  /\ checkCollision(f.hitbox, OppBox(o))
  /\ o.state # "HIT" /\ o.state # "DEAD"

CounterEnd(f) ==
  IF f.frameTimer <= 0 THEN [f EXCEPT !.state = "IDLE", !.hitbox = NoBox] ELSE f

UpdCounterAt(f, o) ==
  IF CounterLands(f, o)
    THEN [f |-> CounterEnd([f EXCEPT !.hitbox = NoBox]),
          o |-> [o EXCEPT !.hp = @ - 250, !.state = "HIT", !.frameTimer = 30,
                          !.vx = f.facing * 150]]
    ELSE [f |-> CounterEnd(f), o |-> o]

UpdCounter(f, o) ==
  UpdCounterAt([f EXCEPT !.frameTimer = @ - 1, !.vx = f.facing * 150], o)

\* --- f.state === 'ATTACK_LIGHT' || f.state === 'ATTACK_HEAVY' ---

\* Variant: the combo transition without the cooldown test.
ComboCond_NoCooldown(f, input) ==
  /\ f.state = "ATTACK_LIGHT"
  /\ input.atk1
  /\ f.frameTimer < 10
  /\ f.comboIndex < 2

\* The COMBO TRANSITION condition, on the fighter after frameTimer--.
ComboCond(f, input) ==
  /\ f.state = "ATTACK_LIGHT"
  /\ input.atk1
  /\ f.frameTimer < 10
  /\ f.comboIndex < 2
  /\ f.cooldown <= 0

\* The hitbox width after the combo index has advanced to ci.
ComboWidth(style, ci) ==
  IF style = "Wing Chun" THEN (IF ci = 1 THEN 900 ELSE 800)
                         ELSE (IF ci = 2 THEN 1000 ELSE 800)

\* The COMBO TRANSITION body; it returns before the rest of the attack logic.
ComboExtend(f) ==
  [f EXCEPT !.comboIndex = @ + 1,
            !.frameTimer = IF f.style = "Wing Chun" THEN 12 ELSE 18,
            !.cooldown = 5,
            !.hitbox = [(IF @ = NoBox THEN Box(f.x, f.y - 700, 800, 600) ELSE @)
                          EXCEPT !.w = ComboWidth(f.style, f.comboIndex + 1)]]

\* Variant: no bonus for the third hit of a light combo.
Damage_NoBonus(f) ==
  IF f.state = "ATTACK_HEAVY" THEN Stats(f.style).damageHeavy
  ELSE Stats(f.style).damageLight

\* let damage = ...; damage *= 1.5 at combo index 2 of a light attack.
Damage(f) ==
  IF f.state = "ATTACK_HEAVY" THEN Stats(f.style).damageHeavy
  ELSE IF f.comboIndex = 2 THEN (Stats(f.style).damageLight * 15) \div 10
  ELSE Stats(f.style).damageLight

\* let knockback = 8; 25 for a Wing Chun heavy; 20 for Tai Chi at combo index 2.
Knockback(f) ==
  IF f.style = "Tai Chi" /\ f.comboIndex = 2 THEN 200
  ELSE IF f.style = "Wing Chun" /\ f.state = "ATTACK_HEAVY" THEN 250
  ELSE 80

\* The states of the opponent an attack neither hits nor is blocked by.
CleanHitExcluded == {"BLOCK", "HIT", "DEAD", "COUNTER", "ULTIMATE"}

\* if (f.y < FLOOR_Y) { f.vy += GRAVITY; f.y += f.vy; }
Fall(f) ==
  IF f.y < FLOOR_Y THEN [f EXCEPT !.vy = @ + GRAVITY, !.y = @ + f.vy + GRAVITY] ELSE f

\* The tail of the attack branch: f.x += f.vx; f.vx *= 0.7; then the fall.
AttackPhysics(f) == Fall([f EXCEPT !.x = @ + f.vx, !.vx = Scale(@, 7, 10)])

\* Update Hitbox Position
PlaceHitbox(f) ==
  [f EXCEPT !.hitbox =
     [@ EXCEPT !.x = f.x + (IF f.facing = 1 THEN HURT_W ELSE 0 - f.hitbox.w),
               !.y = IF f.style = "Tai Chi" /\ f.comboIndex = 2
                       THEN f.y - 800 ELSE f.y - 700]]

\* Variant: the energy gains of a clean hit are not capped.
CleanHit_Uncapped(f, o) ==
  [f |-> AttackPhysics([f EXCEPT !.energy = @ + 10, !.hitbox = NoBox]),
   o |-> [o EXCEPT !.hp = @ - Damage(f), !.state = "HIT", !.frameTimer = 12,
                   !.vx = f.facing * Knockback(f),
                   !.energy = @ + 15]]

\* Variant: a clean hit leaves the hitbox armed.
CleanHit_KeepHitbox(f, o) ==
  [f |-> AttackPhysics([f EXCEPT !.energy = Min(Stats(f.style).maxEnergy, @ + 10)]),
   o |-> [o EXCEPT !.hp = @ - Damage(f), !.state = "HIT", !.frameTimer = 12,
                   !.vx = f.facing * Knockback(f),
                   !.energy = Min(Stats(o.style).maxEnergy, @ + 15)]]

\* HIT: the opponent is struck, both gain energy, the hitbox is spent.
CleanHit(f, o) ==
  [f |-> AttackPhysics([f EXCEPT !.energy = Min(Stats(f.style).maxEnergy, @ + 10),
                                 !.hitbox = NoBox]),
   o |-> [o EXCEPT !.hp = @ - Damage(f), !.state = "HIT", !.frameTimer = 12,
                   !.vx = f.facing * Knockback(f),
                   !.energy = Min(Stats(o.style).maxEnergy, @ + 15)]]

\* Variant: a blocked hit leaves the hitbox armed.
BlockedHit_KeepHitbox(f, o) ==
  [f |-> AttackPhysics([f EXCEPT !.energy = Min(Stats(f.style).maxEnergy, @ + 5)]),
   o |-> [o EXCEPT !.hp = @ - (Damage(f) \div 10), !.vx = f.facing * 50,
                   !.energy = Min(Stats(o.style).maxEnergy, @ + 5)]]

\* BLOCKED: a tenth of the damage, a push, both gain energy, the hitbox is spent.
BlockedHit(f, o) ==
  [f |-> AttackPhysics([f EXCEPT !.energy = Min(Stats(f.style).maxEnergy, @ + 5),
                                 !.hitbox = NoBox]),
   o |-> [o EXCEPT !.hp = @ - (Damage(f) \div 10), !.vx = f.facing * 50,
                   !.energy = Min(Stats(o.style).maxEnergy, @ + 5)]]

\* Collision Check, on the fighter with its hitbox placed.
Resolve(f, o) ==
  IF checkCollision(f.hitbox, OppBox(o)) /\ o.state \notin CleanHitExcluded
    THEN CleanHit(f, o)
  ELSE IF checkCollision(f.hitbox, OppBox(o)) /\ o.state = "BLOCK"
    THEN BlockedHit(f, o)
  ELSE [f |-> AttackPhysics(f), o |-> o]

\* The attack branch on the fighter after frameTimer--.
UpdAttackAt(f, o, input) ==
  IF ComboCond(f, input)
    THEN [f |-> ComboExtend(f), o |-> o]
  ELSE IF f.frameTimer <= 0
    THEN [f |-> AttackPhysics([f EXCEPT !.state = "IDLE", !.hitbox = NoBox,
                                        !.comboIndex = 0]),
          o |-> o]
  ELSE IF f.hitbox # NoBox
    THEN Resolve(PlaceHitbox(f), o)
  ELSE [f |-> AttackPhysics(f), o |-> o]

UpdAttack(f, o, input) == UpdAttackAt([f EXCEPT !.frameTimer = @ - 1], o, input)

\* --- f.state === 'HIT' || f.state === 'WIN' || f.state === 'DEAD' ---

StunEnd(f) == IF f.frameTimer <= 0 THEN [f EXCEPT !.state = "IDLE"] ELSE f

StunTick(f) == IF f.state = "HIT" THEN StunEnd([f EXCEPT !.frameTimer = @ - 1]) ELSE f

\* f.x += f.vx; f.vx *= FRICTION;
Slide(f) == [f EXCEPT !.x = @ + f.vx, !.vx = Scale(@, 85, 100)]

UpdStunned(f, o) == [f |-> Slide(Fall(StunTick(f))), o |-> o]

\* --- the fall-through branch: IDLE, WALK, JUMP, BLOCK (and CROUCH) ---

\* ULTIMATE entry
UltimateCond(f, input) == input.ultimate /\ f.energy >= 100 /\ f.cooldown <= 0

\* Variant: the ultimate entry without the energy reset.
EnterUltimate_KeepEnergy(f) ==
  [f EXCEPT !.state = "ULTIMATE", !.frameTimer = 90, !.hitbox = Box(0, 0, 0, 0)]

EnterUltimate(f) ==
  [f EXCEPT !.state = "ULTIMATE", !.frameTimer = 90, !.energy = 0,
            !.hitbox = Box(0, 0, 0, 0)]

\* speed * 0.2
Accel(f) == (Stats(f.style).speed * 2) \div 10

\* MOVEMENT: left / right / neither.
Move(f, input) ==
  IF input.left
    THEN [f EXCEPT !.vx = IF @ - Accel(f) < 0 - Stats(f.style).speed
                            THEN 0 - Stats(f.style).speed ELSE @ - Accel(f),
                   !.facing = -1, !.state = "WALK"]
  ELSE IF input.right
    THEN [f EXCEPT !.vx = IF @ + Accel(f) > Stats(f.style).speed
                            THEN Stats(f.style).speed ELSE @ + Accel(f),
                   !.facing = 1, !.state = "WALK"]
  ELSE [f EXCEPT !.vx = Scale(@, 85, 100), !.state = "IDLE"]

\* if (input.up && f.y >= FLOOR_Y) ...
Jump(f, input) ==
  IF input.up /\ f.y >= FLOOR_Y
    THEN [f EXCEPT !.vy = 0 - Stats(f.style).jumpForce, !.state = "JUMP"]
    ELSE f

\* if (input.down) ...
Block(f, input) == IF input.down THEN [f EXCEPT !.state = "BLOCK", !.vx = 0] ELSE f

\* Variant: the counter entry without the energy test.
CounterCond_NoEnergy(f, input) == input.down /\ (input.atk1 \/ input.atk2)

\* COUNTER (While blocking + Attack)
CounterCond(f, input) == input.down /\ (input.atk1 \/ input.atk2) /\ f.energy >= 30

EnterCounter(f) ==
  [f EXCEPT !.state = "COUNTER", !.energy = @ - 30, !.frameTimer = 20,
            !.hitbox = Box(0, 0, 1000, 600)]

\* Variant: the attack entries without the cooldown test.
Attack_NoCooldown(f, input) ==
  IF input.atk1
    THEN [f EXCEPT !.state = "ATTACK_LIGHT", !.comboIndex = 0,
                   !.frameTimer = IF f.style = "Wing Chun" THEN 12 ELSE 20,
                   !.cooldown = 10, !.hitbox = Box(0, 0, 800, 600)]
  ELSE IF input.atk2
    THEN [f EXCEPT !.state = "ATTACK_HEAVY", !.frameTimer = 30, !.cooldown = 40,
                   !.hitbox = Box(0, 0, 1000, 800),
                   !.vx = IF f.style = "Wing Chun" THEN f.facing * 100 ELSE @]
  ELSE f

\* ATTACKS
Attack(f, input) ==
  IF input.atk1 /\ f.cooldown <= 0
    THEN [f EXCEPT !.state = "ATTACK_LIGHT", !.comboIndex = 0,
                   !.frameTimer = IF f.style = "Wing Chun" THEN 12 ELSE 20,
                   !.cooldown = 10, !.hitbox = Box(0, 0, 800, 600)]
  ELSE IF input.atk2 /\ f.cooldown <= 0
    THEN [f EXCEPT !.state = "ATTACK_HEAVY", !.frameTimer = 30, !.cooldown = 40,
                   !.hitbox = Box(0, 0, 1000, 800),
                   !.vx = IF f.style = "Wing Chun" THEN f.facing * 100 ELSE @]
  ELSE f

\* if (f.y > FLOOR_Y) ...; if (f.x < 0) ...; if (f.x > CANVAS_WIDTH - f.hurtbox.w) ...
Clamp(f) ==
  [f EXCEPT !.vy = IF f.y > FLOOR_Y THEN 0 ELSE @,
            !.y  = IF @ > FLOOR_Y THEN FLOOR_Y ELSE @,
            !.x  = IF @ < 0 THEN 0
                   ELSE IF @ > CANVAS_WIDTH - HURT_W THEN CANVAS_WIDTH - HURT_W ELSE @]

\* f.vy += GRAVITY; f.x += f.vx; f.y += f.vy; then the clamps.
NeutralPhysics(f) ==
  Clamp([f EXCEPT !.vy = @ + GRAVITY, !.x = @ + f.vx, !.y = @ + f.vy + GRAVITY])

\* Variant: the counter entry is tested before the ultimate entry.
UpdNeutral_CounterFirst(f, o, input) ==
  IF CounterCond(f, input)
    THEN [f |-> EnterCounter(Block(Jump(Move(f, input), input), input)), o |-> o]
  ELSE IF UltimateCond(f, input)
    THEN [f |-> EnterUltimate(f), o |-> o]
  ELSE [f |-> NeutralPhysics(Attack(Block(Jump(Move(f, input), input), input), input)),
        o |-> o]

\* After movement, jump and block: counter, or attack and physics.
UpdNeutralAt(f, o, input) ==
  IF CounterCond(f, input)
    THEN [f |-> EnterCounter(f), o |-> o]
    ELSE [f |-> NeutralPhysics(Attack(f, input)), o |-> o]

UpdNeutral(f, o, input) ==
  IF UltimateCond(f, input)
    THEN [f |-> EnterUltimate(f), o |-> o]
    ELSE UpdNeutralAt(Block(Jump(Move(f, input), input), input), o, input)

\* if (f.cooldown > 0) f.cooldown--;
CooldownTick(f) == IF f.cooldown > 0 THEN [f EXCEPT !.cooldown = @ - 1] ELSE f

\* The dispatch on f.state, on the fighter after the cooldown decrement.
Dispatch(f, o, input) ==
  IF f.state = "ULTIMATE" THEN UpdUltimate(f, o)
  ELSE IF f.state = "COUNTER" THEN UpdCounter(f, o)
  ELSE IF f.state \in {"ATTACK_LIGHT", "ATTACK_HEAVY"} THEN UpdAttack(f, o, input)
  ELSE IF f.state \in {"HIT", "WIN", "DEAD"} THEN UpdStunned(f, o)
  ELSE UpdNeutral(f, o, input)

\* updateFighter(f, opponent, input); over is gameState.current.gameOver.
updateFighter(f, o, input, over) ==
  IF over THEN [f |-> f, o |-> o]
  ELSE IF f.hp <= 0 THEN [f |-> [f EXCEPT !.state = "DEAD"], o |-> o]
  ELSE Dispatch(CooldownTick(f), o, input)

(***************************************************************************)
(* updateAI.  Every Math.random() comparison is a gate that either passes  *)
(* or fails (each probability of the three difficulty profiles lies        *)
(* strictly between 0 and 1); a draw record fixes the outcome of each.     *)
(***************************************************************************)
Draws == [ult : BOOLEAN, block : BOOLEAN, counter : BOOLEAN, approach : BOOLEAN,
          attack : BOOLEAN, light : BOOLEAN, jump : BOOLEAN]

Abs(n) == IF n < 0 THEN 0 - n ELSE n

\* Variant: the counter gate does not look at the difficulty.
updateAI_CounterOnEasy(ai, player, diff, r) ==
  LET dist == Abs(ai.x - player.x)
      toward == IF player.x < ai.x
                  THEN [NoInput EXCEPT !.left = TRUE] ELSE [NoInput EXCEPT !.right = TRUE]
  IN  IF ai.state \in {"HIT", "DEAD", "WIN", "ULTIMATE"} THEN NoInput
      ELSE IF ai.energy >= 100 /\ dist < 2000 /\ r.ult
        THEN [NoInput EXCEPT !.ultimate = TRUE]
      ELSE IF dist < 1000 /\ player.state \in {"ATTACK_LIGHT", "ATTACK_HEAVY"} /\ r.block
        THEN [NoInput EXCEPT !.down = TRUE,
                             !.atk1 = ai.energy >= 30 /\ r.counter]
      ELSE IF dist > 3000
        THEN (IF r.approach THEN toward ELSE NoInput)
      ELSE IF dist < 900
        THEN (IF r.attack
                THEN (IF ai.state = "ATTACK_LIGHT" /\ ai.comboIndex < 2
                        THEN [NoInput EXCEPT !.atk1 = TRUE]
                      ELSE IF r.light THEN [NoInput EXCEPT !.atk1 = TRUE]
                      ELSE [NoInput EXCEPT !.atk2 = TRUE])
                ELSE NoInput)
      ELSE [toward EXCEPT !.up = r.jump]

updateAI(ai, player, diff, r) ==
  LET dist == Abs(ai.x - player.x)
      toward == IF player.x < ai.x
                  THEN [NoInput EXCEPT !.left = TRUE] ELSE [NoInput EXCEPT !.right = TRUE]
  IN  IF ai.state \in {"HIT", "DEAD", "WIN", "ULTIMATE"} THEN NoInput
      ELSE IF ai.energy >= 100 /\ dist < 2000 /\ r.ult
        THEN [NoInput EXCEPT !.ultimate = TRUE]
      ELSE IF dist < 1000 /\ player.state \in {"ATTACK_LIGHT", "ATTACK_HEAVY"} /\ r.block
        THEN [NoInput EXCEPT !.down = TRUE,
                             !.atk1 = ai.energy >= 30 /\ diff # "Easy" /\ r.counter]
      ELSE IF dist > 3000
        THEN (IF r.approach THEN toward ELSE NoInput)
      ELSE IF dist < 900
        THEN (IF r.attack
                THEN (IF ai.state = "ATTACK_LIGHT" /\ ai.comboIndex < 2
                        THEN [NoInput EXCEPT !.atk1 = TRUE]
                      ELSE IF r.light THEN [NoInput EXCEPT !.atk1 = TRUE]
                      ELSE [NoInput EXCEPT !.atk2 = TRUE])
                ELSE NoInput)
      ELSE [toward EXCEPT !.up = r.jump]

\* The input vectors the AI can produce in this state.
AIInputsOf(ai, player, diff, Rs) == {updateAI(ai, player, diff, r) : r \in Rs}

AIInputs(ai, player, diff) == AIInputsOf(ai, player, diff, Draws)


(***************************************************************************)
(* Particles, hit effects and the screen shake.  A value e of this section *)
(* is [particles, hitEffects, shake] of gameState.  Of a particle the      *)
(* simulation reads only whether its shape is 'ink' and its life; position,*)
(* velocity, colour and size are drawn, never tested.  Lives are counted   *)
(* in hundredths.  The particles of a Tai Chi fighter are always ink,      *)
(* those of a Wing Chun fighter never.                                     *)
(***************************************************************************)
NoEffects == [particles |-> <<>>, hitEffects |-> <<>>, shake |-> 0]

\* spawnParticles(x, y, color, count, style, type)
spawnParticles(e, count, style) ==
  [e EXCEPT !.particles =
     @ \o [i \in 1..count |-> [ink |-> style = "Tai Chi", life |-> 100]]]

\* spawnHitEffect(x, y, type, style)
spawnHitEffect(e, type, style) ==
  [e EXCEPT !.hitEffects = Append(@, [type |-> type, style |-> style, life |-> 100]),
            !.shake = IF type = "impact"
                        THEN (IF style = "Wing Chun" THEN 10 ELSE 5) ELSE 3]

\* Ultimate Visuals: every fifth frame of the animation.
FxUltimateVisuals(e, f) ==
  IF f.frameTimer % 5 = 0
    THEN spawnParticles([e EXCEPT !.shake = 5], 5, f.style)
    ELSE e

\* The ULTIMATE branch, on the fighter after frameTimer--.
FxUltimateAt(e, f, o) ==
  IF f.frameTimer = 20 /\ checkCollision(ArenaBox, OppBox(o))
    THEN spawnHitEffect(FxUltimateVisuals(e, f), "impact", f.style)
    ELSE FxUltimateVisuals(e, f)

\* The COUNTER branch, on the fighter after frameTimer--.
FxCounterAt(e, f, o) ==
  IF CounterLands(f, o) THEN spawnHitEffect(e, "impact", f.style) ELSE e

\* Procedural Trails: one particle when the draw passes.
FxTrail(e, f, trail) ==
  IF f.frameTimer > 0 /\ f.hitbox # NoBox /\ trail
    THEN spawnParticles(e, 1, f.style) ELSE e

\* The collision check of the attack branch, on the fighter with its hitbox
\* placed: a clean hit, a blocked hit, or nothing.
FxResolve(e, f, o) ==
  IF checkCollision(f.hitbox, OppBox(o)) /\ o.state \notin CleanHitExcluded
    THEN spawnParticles(spawnHitEffect(e, "impact", f.style), 15, f.style)
  ELSE IF checkCollision(f.hitbox, OppBox(o)) /\ o.state = "BLOCK"
    THEN spawnParticles(spawnHitEffect(e, "block", o.style), 5, o.style)
  ELSE e

\* The attack branch, on the fighter after frameTimer--.
FxAttackAt(e, f, o, input, trail) ==
  IF ComboCond(f, input) \/ f.frameTimer <= 0 \/ f.hitbox = NoBox
    THEN FxTrail(e, f, trail)
    ELSE FxResolve(FxTrail(e, f, trail), PlaceHitbox(f), o)

\* What one updateFighter(f, o, input) call adds to the effects e.
updateFighterFx(e, f, o, input, trail, over) ==
  IF over \/ f.hp <= 0 THEN e
  ELSE IF f.state = "ULTIMATE" THEN FxUltimateAt(e, [f EXCEPT !.frameTimer = @ - 1], o)
  ELSE IF f.state = "COUNTER" THEN FxCounterAt(e, [f EXCEPT !.frameTimer = @ - 1], o)
  ELSE IF f.state \in {"ATTACK_LIGHT", "ATTACK_HEAVY"}
    THEN FxAttackAt(e, [CooldownTick(f) EXCEPT !.frameTimer = @ - 1], o, input, trail)
  ELSE e

\* One particle aged: ink fades by 0.02 a frame, every other shape by 0.08.
AgeParticle(p) == [p EXCEPT !.life = IF p.ink THEN @ - 2 ELSE @ - 8]

\* One hit effect aged by 0.1.  In doubles ten subtractions of 0.1 from 1.0
\* leave 1.4e-16, not 0: the tenth aging leaves a positive life (held as 1)
\* and the effect is removed by the eleventh.
AgeHitEffect(h) == [h EXCEPT !.life = IF @ - 10 = 0 THEN 1 ELSE @ - 10]

\* list.splice(i, 1)
Splice(list, i) == SubSeq(list, 1, i - 1) \o SubSeq(list, i + 1, Len(list))

RECURSIVE AgeParticles(_, _)
\* for (let i = particles.length - 1; i >= 0; i--) { age; if (life <= 0) splice }
\* (i counts from Len down to 1).
AgeParticles(ps, i) ==
  IF i < 1 THEN ps
  ELSE IF AgeParticle(ps[i]).life <= 0 THEN AgeParticles(Splice(ps, i), i - 1)
  ELSE AgeParticles([ps EXCEPT ![i] = AgeParticle(@)], i - 1)

RECURSIVE AgeHitEffects(_, _)
\* for (let i = hitEffects.length - 1; i >= 0; i--) { life -= 0.1; if (life <= 0) splice }
AgeHitEffects(hs, i) ==
  IF i < 1 THEN hs
  ELSE IF AgeHitEffect(hs[i]).life <= 0 THEN AgeHitEffects(Splice(hs, i), i - 1)
  ELSE AgeHitEffects([hs EXCEPT ![i] = AgeHitEffect(@)], i - 1)

\* Variant: every entry is aged and none is removed.
AgeEffects_KeepDead(e) ==
  [e EXCEPT !.particles = [i \in 1..Len(@) |-> AgeParticle(@[i])],
            !.hitEffects = [i \in 1..Len(@) |-> AgeHitEffect(@[i])]]

\* The two aging loops of a frame.
AgeEffects(e) ==
  [e EXCEPT !.particles = AgeParticles(@, Len(@)),
            !.hitEffects = AgeHitEffects(@, Len(@))]

\* The shake handling of draw: `shake` is read once on entry; the ULT
\* darkening stores 2; a positive value read on entry then stores its decay.
DrawShake(sh, a, b) ==
  IF sh > 0 THEN sh - 1
  ELSE IF a.state = "ULTIMATE" \/ b.state = "ULTIMATE" THEN 2
  ELSE sh

\* The effects of a frame: the two updateFighter calls in order, then aging.
\* u is the result of the first call, tr the two trail draws.
FrameFx(e, a, b, u, in1, in2, tr) ==
  AgeEffects(updateFighterFx(updateFighterFx(e, a, b, in1, tr[1], FALSE),
                             u.o, u.f, in2, tr[2], FALSE))


(***************************************************************************)
(* gameLoop: one frame.                                                    *)
(***************************************************************************)

\* The second updateFighter call: fighter 2 against fighter 1 as the first
\* call left it.  u is the first call's result.
SecondUpdate(u, in2) == updateFighter(u.o, u.f, in2, FALSE)

\* A pair [f, o] of the second call renamed to [p1, p2].
AsPair(u) == [p1 |-> u.o, p2 |-> u.f]

\* Variant: fighter 2 updated before fighter 1.
BothUpdates_SecondFirst(a, b, in1, in2) ==
  [p1 |-> updateFighter(a, updateFighter(b, a, in2, FALSE).f, in1, FALSE).f,
   p2 |-> updateFighter(a, updateFighter(b, a, in2, FALSE).f, in1, FALSE).o]

\* Variant: both calls are made on the fighters as the frame found them, and
\* each fighter takes the hp the other's call left it.
BothUpdates_Snapshot(a, b, in1, in2) ==
  [p1 |-> [updateFighter(a, b, in1, FALSE).f
             EXCEPT !.hp = updateFighter(b, a, in2, FALSE).o.hp],
   p2 |-> [updateFighter(b, a, in2, FALSE).f
             EXCEPT !.hp = updateFighter(a, b, in1, FALSE).o.hp]]

\* The two updateFighter calls of a frame, in source order.
BothUpdates(a, b, in1, in2) ==
  AsPair(SecondUpdate(updateFighter(a, b, in1, FALSE), in2))

\* Variant: the countdown draw never passes.
Countdown_Never(t, dec) == t

\* if (st.timer > 0 && Math.random() < (1/60)) st.timer -= 1;
Countdown(t, dec) == IF t > 0 /\ dec THEN t - 1 ELSE t

\* Variant: a termination block that gives a tie on hit points to fighter 1.
Termination_TieToFirst(a, b, t) ==
  IF ~(a.hp <= 0 \/ b.hp <= 0 \/ t <= 0)
    THEN [p1 |-> a, p2 |-> b, gameOver |-> FALSE, winner |-> 0,
          message |-> "none", status |-> "PLAYING"]
  ELSE IF a.hp >= b.hp
    THEN [p1 |-> [a EXCEPT !.state = "WIN"], p2 |-> b, gameOver |-> TRUE, winner |-> 1,
          message |-> "TIME OUT - YOU WIN", status |-> "GAMEOVER"]
  ELSE [p1 |-> a, p2 |-> [b EXCEPT !.state = "WIN"], gameOver |-> TRUE, winner |-> 2,
        message |-> "TIME OUT - YOU LOSE", status |-> "GAMEOVER"]

\* Variant: a termination block that leaves the winner's state alone.
Termination_NoWinState(a, b, t) ==
  IF ~(a.hp <= 0 \/ b.hp <= 0 \/ t <= 0)
    THEN [p1 |-> a, p2 |-> b, gameOver |-> FALSE, winner |-> 0,
          message |-> "none", status |-> "PLAYING"]
  ELSE IF a.hp <= 0 /\ b.hp > 0
    THEN [p1 |-> a, p2 |-> b, gameOver |-> TRUE, winner |-> 2,
          message |-> "YOU LOSE", status |-> "GAMEOVER"]
  ELSE IF b.hp <= 0 /\ a.hp > 0
    THEN [p1 |-> a, p2 |-> b, gameOver |-> TRUE, winner |-> 1,
          message |-> "YOU WIN", status |-> "GAMEOVER"]
  ELSE [p1 |-> a, p2 |-> b, gameOver |-> TRUE, winner |-> 0,
        message |-> "DRAW", status |-> "GAMEOVER"]

\* The termination block: who wins, who is marked WIN, what the banner says.
Termination(a, b, t) ==
  IF ~(a.hp <= 0 \/ b.hp <= 0 \/ t <= 0)
    THEN [p1 |-> a, p2 |-> b, gameOver |-> FALSE, winner |-> 0,
          message |-> "none", status |-> "PLAYING"]
  ELSE IF a.hp <= 0 /\ b.hp > 0
    THEN [p1 |-> a, p2 |-> [b EXCEPT !.state = "WIN"], gameOver |-> TRUE, winner |-> 2,
          message |-> "YOU LOSE", status |-> "GAMEOVER"]
  ELSE IF b.hp <= 0 /\ a.hp > 0
    THEN [p1 |-> [a EXCEPT !.state = "WIN"], p2 |-> b, gameOver |-> TRUE, winner |-> 1,
          message |-> "YOU WIN", status |-> "GAMEOVER"]
  ELSE IF a.hp > b.hp
    THEN [p1 |-> [a EXCEPT !.state = "WIN"], p2 |-> b, gameOver |-> TRUE, winner |-> 1,
          message |-> "TIME OUT - YOU WIN", status |-> "GAMEOVER"]
  ELSE IF b.hp > a.hp
    THEN [p1 |-> a, p2 |-> [b EXCEPT !.state = "WIN"], gameOver |-> TRUE, winner |-> 2,
          message |-> "TIME OUT - YOU LOSE", status |-> "GAMEOVER"]
  ELSE [p1 |-> a, p2 |-> b, gameOver |-> TRUE, winner |-> 0,
        message |-> "DRAW", status |-> "GAMEOVER"]

\* The simulation part of one frame, from the fighters and countdown before it.
TerminationOf(u, t) == Termination(u.p1, u.p2, t)

Frame(a, b, t, in1, in2, dec) ==
  TerminationOf(BothUpdates(a, b, in1, in2), Countdown(t, dec))

Requested_Always(e) == e.gameOver

\* The flavor text is requested when the match ends with a winner.
Requested(e) == e.gameOver /\ e.winner # 0

\* A frame of a match that is over: the block under `if (!st.gameOver)` is
\* skipped and only draw runs.
DrawOnly_Aging ==
  /\ shake' = DrawShake(shake, p1, p2)
  /\ particles' = AgeParticles(particles, Len(particles))
  /\ hitEffects' = AgeHitEffects(hitEffects, Len(hitEffects))
  /\ UNCHANGED <<p1, p2, timer, gameOver, winner, gameStatus, winnerMessage,
                 senseiWisdom, pending>>

DrawOnly ==
  /\ shake' = DrawShake(shake, p1, p2)
  /\ UNCHANGED <<p1, p2, timer, gameOver, winner, gameStatus, winnerMessage,
                 particles, hitEffects, senseiWisdom, pending>>

\* The body of a frame that is not skipped: the simulation block, or the
\* draw alone once the match is over.  The human input is drawn from Ins,
\* the AI's random draws from Rs, the countdown draw from Decs and the two
\* trail draws from Trs.
RunFrame(Ins, Rs, Decs, Trs) ==
  /\ drawn' = TRUE
  /\ IF gameOver
       THEN DrawOnly
       ELSE \E in1 \in Ins, in2 \in AIInputsOf(p2, p1, difficulty, Rs),
               dec \in Decs, tr \in Trs :
              \E e \in {Frame(p1, p2, timer, in1, in2, dec)},
                 fx \in {FrameFx([particles |-> particles,
                                  hitEffects |-> hitEffects, shake |-> shake],
                                 p1, p2, updateFighter(p1, p2, in1, FALSE),
                                 in1, in2, tr)} :
                  /\ p1' = e.p1
                  /\ p2' = e.p2
                  /\ timer' = Countdown(timer, dec)
                  /\ gameOver' = e.gameOver
                  /\ winner' = (IF e.gameOver THEN e.winner ELSE winner)
                  /\ gameStatus' = e.status
                  /\ winnerMessage' = (IF e.gameOver THEN e.message
                                       ELSE winnerMessage)
                  /\ particles' = fx.particles
                  /\ hitEffects' = fx.hitEffects
                  /\ shake' = DrawShake(fx.shake, e.p1, e.p2)
                  /\ senseiWisdom' = (IF Requested(e) THEN "Thinking..."
                                      ELSE senseiWisdom)
                  /\ pending' = (IF Requested(e)
                                   THEN pending \cup {[match |-> matchNo]}
                                   ELSE pending)
  /\ UNCHANGED <<paused, difficulty, playerChar, selectedDifficulty,
                 lastResponse, matchNo, loopStatus, collision>>

\* One scheduled frame; at most Max simulated frames are explored.
gameLoopWith(Ins, Rs, Decs, Trs, Max) ==
  IF paused \/ loopStatus # "PLAYING"
    THEN /\ drawn' = FALSE
         /\ UNCHANGED <<gameState, gameStatus, winnerMessage, playerChar,
                        selectedDifficulty, ticks, display, loopStatus,
                        collision>>
    ELSE
      /\ ticks < Max
      /\ ticks' = ticks + 1
      /\ RunFrame(Ins, Rs, Decs, Trs)

\* One scheduled frame, the frames not counted: requestAnimationFrame goes
\* on for as long as the page is shown.
gameLoopForever(Ins, Rs, Decs, Trs) ==
  IF paused \/ loopStatus # "PLAYING"
    THEN /\ drawn' = FALSE
         /\ UNCHANGED <<gameState, gameStatus, winnerMessage, playerChar,
                        selectedDifficulty, ticks, display, loopStatus,
                        collision>>
    ELSE
      /\ ticks' = ticks
      /\ RunFrame(Ins, Rs, Decs, Trs)

NoTrail == <<FALSE, FALSE>>

gameLoop(Ins, Decs, Max) == gameLoopWith(Ins, Draws, Decs, {NoTrail}, Max)

\* startGame; a rematch is explored for at most RematchTicks further frames
\* of the Max explored.
startGameWith_KeepEffects(Max) ==
  /\ loopStatus = gameStatus
  /\ gameStatus \in {"MENU", "GAMEOVER"}
  /\ p1' = createFighter(1, 1000, FALSE, playerChar)
  /\ p2' = createFighter(2, 6000, TRUE, OtherStyle(playerChar))
  /\ timer' = MATCH_SECONDS
  /\ gameOver' = FALSE
  /\ winner' = 0
  /\ paused' = FALSE
  /\ difficulty' = selectedDifficulty
  /\ winnerMessage' = "none"
  /\ senseiWisdom' = "none"
  /\ gameStatus' = "PLAYING"
  /\ matchNo' = matchNo + 1
  /\ ticks' = IF ticks < Max - RematchTicks THEN Max - RematchTicks ELSE ticks
  /\ UNCHANGED <<playerChar, selectedDifficulty, drawn, pending, lastResponse,
                 loopStatus, collision, particles, hitEffects, shake>>

startGameWith(Max) ==
  /\ loopStatus = gameStatus
  /\ gameStatus \in {"MENU", "GAMEOVER"}
  /\ p1' = createFighter(1, 1000, FALSE, playerChar)
  /\ p2' = createFighter(2, 6000, TRUE, OtherStyle(playerChar))
  /\ particles' = <<>>
  /\ hitEffects' = <<>>
  /\ timer' = MATCH_SECONDS
  /\ gameOver' = FALSE
  /\ winner' = 0
  /\ paused' = FALSE
  /\ shake' = 0
  /\ difficulty' = selectedDifficulty
  /\ winnerMessage' = "none"
  /\ senseiWisdom' = "none"
  /\ gameStatus' = "PLAYING"
  /\ matchNo' = matchNo + 1
  /\ ticks' = IF ticks < Max - RematchTicks THEN Max - RematchTicks ELSE ticks
  /\ UNCHANGED <<playerChar, selectedDifficulty, drawn, pending, lastResponse,
                 loopStatus,
                 collision>>

startGame == startGameWith(MaxTicks)

goHome ==
  /\ loopStatus = gameStatus
  /\ gameStatus = "GAMEOVER"
  /\ gameStatus' = "MENU"
  /\ winnerMessage' = "none"
  /\ UNCHANGED <<gameState, playerChar, selectedDifficulty, ticks, drawn, display,
                 loopStatus,
                 collision>>

\* useEffect(..., [gameStatus]): after a render with a new gameStatus the old
\* loop is cancelled and a loop closed over the new value is scheduled.
gameLoopEffect ==
  /\ loopStatus # gameStatus
  /\ loopStatus' = gameStatus
  /\ UNCHANGED <<gameState, gameStatus, winnerMessage, playerChar,
                 selectedDifficulty, ticks, drawn, display, collision>>

(***************************************************************************)
(* getSenseiFeedback.  A response of the external call is what             *)
(* generateContent did: it threw, or it returned an object whose text is a *)
(* string (possibly empty) or missing.                                     *)
(***************************************************************************)
Undefined == "<undefined>"
NoResponse == [thrown |-> FALSE, text |-> "<no call yet>"]

\* The text the model returns for the match that asked.
Wisdom(n) ==
  IF n = 1 THEN "lesson of match 1"
  ELSE IF n = 2 THEN "lesson of match 2"
  ELSE "lesson of a later match"

Responses(n) ==
  {[thrown |-> TRUE, text |-> Undefined],
   [thrown |-> FALSE, text |-> Wisdom(n)],
   [thrown |-> FALSE, text |-> ""],
   [thrown |-> FALSE, text |-> Undefined]}

getSenseiFeedback_NoDefault(response) ==
  IF response.thrown
    THEN "Victory is its own reward. The API spirits are quiet today."
  ELSE response.text

\* return response.text || "..."; the catch block returns the other string.
getSenseiFeedback(response) ==
  IF response.thrown
    THEN "Victory is its own reward. The API spirits are quiet today."
  ELSE IF response.text \in {"", Undefined}
    THEN "The mind must be sharper than the fist."
  ELSE response.text

\* getSenseiFeedback(...).then(setSenseiWisdom): the promise of a request in
\* flight resolves.
senseiResponse ==
  \E rq \in pending : \E response \in Responses(rq.match) :
    /\ pending' = pending \ {rq}
    /\ lastResponse' = response
    /\ senseiWisdom' = getSenseiFeedback(response)
    /\ UNCHANGED <<gameState, gameStatus, winnerMessage, playerChar,
                   selectedDifficulty, ticks, drawn, matchNo, loopStatus,
                 collision>>

\* collision holds one call of checkCollision, outside any match: its two
\* arguments, whether it has returned, and its result.
NoCall == [r1 |-> NoBox, r2 |-> NoBox, returned |-> FALSE, result |-> FALSE]

\* The values of the effects, the display and the request bookkeeping at the
\* start of an exploration: nothing on screen, nothing in flight, first match.
Quiet ==
  /\ particles = <<>>
  /\ hitEffects = <<>>
  /\ shake = 0
  /\ drawn = TRUE
  /\ senseiWisdom = "none"
  /\ pending = {}
  /\ lastResponse = NoResponse
  /\ matchNo = 1
  /\ loopStatus = gameStatus
  /\ collision = NoCall

(***************************************************************************)
(* Specifications.  A match is explored from states in the middle of a     *)
(* match: the fighters have closed to striking range and stand still on    *)
(* the floor, hit points and energy are as earlier exchanges left them.    *)
(***************************************************************************)

\* The human input vectors explored by the combat specification.
CombatInputs ==
  {NoInput,
   [NoInput EXCEPT !.atk1 = TRUE],
   [NoInput EXCEPT !.atk2 = TRUE],
   [NoInput EXCEPT !.down = TRUE],
   [NoInput EXCEPT !.down = TRUE, !.atk1 = TRUE],
   [NoInput EXCEPT !.ultimate = TRUE]}

MidMatch(style, diff, x1, x2, face2, h1, h2, e1, e2) ==
  /\ p1 = [createFighter(1, x1, FALSE, style) EXCEPT !.hp = h1, !.energy = e1]
  /\ p2 = [createFighter(2, x2, TRUE, OtherStyle(style))
             EXCEPT !.hp = h2, !.energy = e2, !.facing = face2]
  /\ timer = MATCH_SECONDS
  /\ gameOver = FALSE
  /\ winner = 0
  /\ paused = FALSE
  /\ difficulty = diff
  /\ gameStatus = "PLAYING"
  /\ winnerMessage = "none"
  /\ playerChar = style
  /\ selectedDifficulty = diff
  /\ ticks = 0
  /\ Quiet

\* Three situations per style.  Face to face, both unhurt, energy bars full;
\* face to face, both one clean hit from defeat, bars empty; and crossed over:
\* fighter 1 has passed fighter 2 and looks away from it, fighter 2 has turned
\* after it (the AI turns when it walks towards the player).
Init ==
  \E style \in Styles :
    \/ MidMatch(style, "Hard", 3000, 3520, -1,
                Stats(style).maxHp, Stats(OtherStyle(style)).maxHp, 100, 100)
    \/ MidMatch(style, "Hard", 3000, 3520, -1, LowHp, LowHp, 0, 0)
    \/ MidMatch(style, "Hard", 3520, 3000, 1,
                Stats(style).maxHp, Stats(OtherStyle(style)).maxHp, 0, 0)

Tick == gameLoop(CombatInputs, {FALSE}, MaxTicks)

Next == Tick \/ startGame \/ goHome \/ gameLoopEffect \/ senseiResponse

Spec == Init /\ [][Next]_vars


(***************************************************************************)
(* The ultimate around its damage frame.  One fighter enters ULTIMATE on   *)
(* the first frame (fighter 1 by the ultimate key, fighter 2 by the AI's   *)
(* ultimate gate).  For the first QuietFrames frames the other fighter     *)
(* stands still: the human holds only the ultimate key, and no AI gate     *)
(* other than the ultimate's passes.  From then on every input is explored *)
(* until UltTicks frames have been played, which is past the expiry.       *)
(***************************************************************************)
UltDraw == [ult |-> TRUE, block |-> FALSE, counter |-> FALSE, approach |-> FALSE,
            attack |-> FALSE, light |-> FALSE, jump |-> FALSE]

InitUlt ==
  \E style \in Styles, user \in {1, 2}, low \in BOOLEAN :
    /\ p1 = [createFighter(1, 3000, FALSE, style)
               EXCEPT !.energy = IF user = 1 THEN 100 ELSE 0,
                      !.hp = IF user = 2 /\ low THEN LowHp ELSE @]
    /\ p2 = [createFighter(2, 3520, TRUE, OtherStyle(style))
               EXCEPT !.energy = IF user = 2 THEN 100 ELSE 0,
                      !.hp = IF user = 1 /\ low THEN LowHp ELSE @]
    /\ timer = MATCH_SECONDS
    /\ gameOver = FALSE
    /\ winner = 0
    /\ paused = FALSE
    /\ difficulty = "Hard"
    /\ gameStatus = "PLAYING"
    /\ winnerMessage = "none"
    /\ playerChar = style
    /\ selectedDifficulty = "Hard"
    /\ ticks = 0
    /\ Quiet

QuietTick ==
  /\ ticks < QuietFrames
  /\ gameLoopWith({[NoInput EXCEPT !.ultimate = TRUE]}, {UltDraw}, {FALSE}, {NoTrail},
                  UltTicks)

FreeTick ==
  /\ ticks >= QuietFrames
  /\ gameLoopWith(CombatInputs, Draws, {FALSE}, {NoTrail}, UltTicks)

NextUlt == QuietTick \/ FreeTick \/ gameLoopEffect

SpecUlt == InitUlt /\ [][NextUlt]_vars

(***************************************************************************)
(* Two ultimates.  Both energy bars are full; the AI's ultimate gate       *)
(* passes on the first frame, and the human presses the ultimate key or    *)
(* nothing, so that fighter 1 enters ULTIMATE with fighter 2, on any later *)
(* frame, or never.                                                        *)
(***************************************************************************)
InitDuel ==
  \E style \in Styles :
    MidMatch(style, "Hard", 3000, 3520, -1,
             Stats(style).maxHp, Stats(OtherStyle(style)).maxHp, 100, 100)

TickDuel ==
  gameLoopWith({NoInput, [NoInput EXCEPT !.ultimate = TRUE]}, {UltDraw},
               {FALSE}, {NoTrail}, DuelTicks)

SpecDuel == InitDuel /\ [][TickDuel]_vars

(***************************************************************************)
(* Light combos.  The human stands, or holds the light or the heavy        *)
(* attack; none of the AI's gates passes, so fighter 2 stands and takes    *)
(* the hits.                                                               *)
(***************************************************************************)
NoDraw == [ult |-> FALSE, block |-> FALSE, counter |-> FALSE, approach |-> FALSE,
           attack |-> FALSE, light |-> FALSE, jump |-> FALSE]

ComboInputs ==
  {NoInput, [NoInput EXCEPT !.atk1 = TRUE], [NoInput EXCEPT !.atk2 = TRUE]}

InitCombo ==
  \E style \in Styles :
    MidMatch(style, "Hard", 3000, 3520, -1,
             Stats(style).maxHp, Stats(OtherStyle(style)).maxHp, 0, 0)

TickCombo == gameLoopWith(ComboInputs, {NoDraw}, {FALSE}, {NoTrail}, ComboTicks)

SpecCombo == InitCombo /\ [][TickCombo]_vars

(***************************************************************************)
(* Struck out of a combo.  Fighter 2 starts with a full energy bar and     *)
(* enters ULTIMATE on the first frame; its damage frame comes 70 frames    *)
(* later, whatever state fighter 1 is in by then.  The human stands or     *)
(* holds the light or the heavy attack throughout, until KnockTicks frames *)
(* have been played: past the 60 frames of stun and the next attack.       *)
(***************************************************************************)
InitKnock ==
  \E style \in Styles :
    MidMatch(style, "Hard", 3000, 3520, -1,
             Stats(style).maxHp, Stats(OtherStyle(style)).maxHp, 0, 100)

TickKnock == gameLoopWith(ComboInputs, {UltDraw}, {FALSE}, {NoTrail}, KnockTicks)

SpecKnock == InitKnock /\ [][TickKnock]_vars

(***************************************************************************)
(* Jumps.  The human stands, jumps, or holds the light or the heavy        *)
(* attack, on the floor or in the air; none of the AI's gates passes.      *)
(***************************************************************************)
JumpInputs ==
  {NoInput, [NoInput EXCEPT !.up = TRUE],
   [NoInput EXCEPT !.atk1 = TRUE], [NoInput EXCEPT !.atk2 = TRUE]}

InitJump ==
  \E style \in Styles :
    MidMatch(style, "Hard", 3000, 3520, -1,
             Stats(style).maxHp, Stats(OtherStyle(style)).maxHp, 0, 0)

TickJump == gameLoopWith(JumpInputs, {NoDraw}, {FALSE}, {NoTrail}, JumpTicks)

SpecJump == InitJump /\ [][TickJump]_vars

(***************************************************************************)
(* The neutral path.  The human stands, jumps, starts a heavy attack or a  *)
(* counter; none of the AI's gates passes.  Fighter 1 is met in a neutral  *)
(* state on the floor and in the air, with a full, a partly spent and an   *)
(* empty energy bar, and with the cooldown of an expired heavy attack      *)
(* still running.                                                          *)
(***************************************************************************)
NeutralInputs ==
  {NoInput, [NoInput EXCEPT !.up = TRUE], [NoInput EXCEPT !.atk2 = TRUE],
   [NoInput EXCEPT !.down = TRUE, !.atk1 = TRUE]}

\* Every input vector: each of the seven keys held or not.
InputVectors ==
  [left : BOOLEAN, right : BOOLEAN, up : BOOLEAN, down : BOOLEAN,
   atk1 : BOOLEAN, atk2 : BOOLEAN, ultimate : BOOLEAN]

InitNeutral ==
  \E style \in Styles :
    \/ MidMatch(style, "Hard", 3000, 3520, -1,
                Stats(style).maxHp, Stats(OtherStyle(style)).maxHp, 100, 0)
    \/ MidMatch(style, "Hard", 3000, 3520, -1,
                Stats(style).maxHp, Stats(OtherStyle(style)).maxHp, 0, 0)

TickNeutral == gameLoopWith(NeutralInputs, {NoDraw}, {FALSE}, {NoTrail}, NeutralTicks)

SpecNeutral == InitNeutral /\ [][TickNeutral]_vars

(***************************************************************************)
(* The countdown to the end.  A match with LiveTimer seconds left, the     *)
(* fighters where startGame put them, or face to face with fighter 2 one   *)
(* hit from defeat; the human stands or holds the light attack, none of    *)
(* the AI's gates passes, and the countdown draw passes or fails on every  *)
(* frame.                                                                  *)
(* Frames keep being scheduled (weak fairness of the frame) and the        *)
(* countdown draw passes infinitely often (strong fairness of the frame    *)
(* whose draw passes).                                                     *)
(***************************************************************************)
LiveInputs == {NoInput, [NoInput EXCEPT !.atk1 = TRUE]}

InitLive ==
  \E style \in Styles, near \in BOOLEAN :
    /\ p1 = createFighter(1, IF near THEN 3000 ELSE 1000, FALSE, style)
    /\ p2 = [createFighter(2, IF near THEN 3520 ELSE 6000, TRUE, OtherStyle(style))
               EXCEPT !.hp = IF near THEN LowHp ELSE @]
    /\ timer = LiveTimer
    /\ gameOver = FALSE
    /\ winner = 0
    /\ paused = FALSE
    /\ difficulty = "Hard"
    /\ gameStatus = "PLAYING"
    /\ winnerMessage = "none"
    /\ playerChar = style
    /\ selectedDifficulty = "Hard"
    /\ ticks = 0
    /\ Quiet

TickLive == gameLoopForever(LiveInputs, {NoDraw}, BOOLEAN, {NoTrail})

\* The frame whose countdown draw passes.
TickDec == gameLoopForever(LiveInputs, {NoDraw}, {TRUE}, {NoTrail})

SpecLive == InitLive /\ [][TickLive]_vars /\ WF_vars(TickLive) /\ SF_vars(TickDec)

(***************************************************************************)
(* Near the wall.  The fighters stand where startGame put them, fighter 2  *)
(* 150 px from the right wall; fighter 1's energy bar is full and the      *)
(* human stands or enters ULTIMATE; the AI is out of range of every gate   *)
(* that passes without a draw and none of its draws passes.                *)
(***************************************************************************)
InitEdge ==
  \E style \in Styles :
    MidMatch(style, "Hard", 1000, 6000, -1,
             Stats(style).maxHp, Stats(OtherStyle(style)).maxHp, 100, 0)

TickEdge ==
  gameLoopWith({NoInput, [NoInput EXCEPT !.ultimate = TRUE]}, {NoDraw},
               {FALSE}, {NoTrail}, EdgeTicks)

SpecEdge == InitEdge /\ [][TickEdge]_vars

(***************************************************************************)
(* Effects in flight.  The human stands, blocks or attacks, the AI attacks *)
(* when its gate passes, and each attacking fighter's trail particle is    *)
(* drawn or not on every frame, so that particles and hit effects of       *)
(* different ages share the collections.                                   *)
(***************************************************************************)
FxInputs ==
  {NoInput, [NoInput EXCEPT !.atk1 = TRUE], [NoInput EXCEPT !.atk2 = TRUE],
   [NoInput EXCEPT !.down = TRUE]}

FxDraws == {r \in Draws : ~r.ult /\ ~r.block /\ ~r.counter /\ ~r.approach /\ ~r.jump}

InitFx ==
  \E style \in Styles :
    MidMatch(style, "Hard", 3000, 3520, -1,
             Stats(style).maxHp, Stats(OtherStyle(style)).maxHp, 0, 0)

TickFx == gameLoopWith(FxInputs, FxDraws, {FALSE}, BOOLEAN \X BOOLEAN, FxTicks)

SpecFx == InitFx /\ [][TickFx]_vars

(***************************************************************************)
(* checkCollision on its own: every pair of boxes with corners and sizes   *)
(* in 0..MaxCoord (touching, nested, disjoint, empty), with no match       *)
(* running.                                                                *)
(***************************************************************************)
Boxes == {Box(x, y, w, h) : x \in 0..MaxCoord, y \in 0..MaxCoord,
                            w \in 0..MaxCoord, h \in 0..MaxCoord}

InitBox ==
  /\ p1 = createFighter(1, 1000, FALSE, "Tai Chi")
  /\ p2 = createFighter(2, 6000, TRUE, "Wing Chun")
  /\ timer = MATCH_SECONDS
  /\ gameOver = FALSE
  /\ winner = 0
  /\ paused = FALSE
  /\ difficulty = "Medium"
  /\ gameStatus = "MENU"
  /\ winnerMessage = "none"
  /\ playerChar = "Tai Chi"
  /\ selectedDifficulty = "Medium"
  /\ ticks = 0
  /\ particles = <<>> /\ hitEffects = <<>> /\ shake = 0 /\ drawn = FALSE
  /\ senseiWisdom = "none" /\ pending = {} /\ lastResponse = NoResponse
  /\ matchNo = 0
  /\ loopStatus = "MENU"
  /\ \E a \in Boxes, b \in Boxes : collision = [r1 |-> a, r2 |-> b, returned |-> FALSE, result |-> FALSE]

\* The call returns.
Collide ==
  /\ ~collision.returned
  /\ collision.r1 # NoBox
  /\ collision' = [collision EXCEPT !.returned = TRUE,
                                    !.result = checkCollision(collision.r1, collision.r2)]
  /\ UNCHANGED <<gameState, gameStatus, winnerMessage, playerChar,
                 selectedDifficulty, ticks, drawn, display, loopStatus>>

SpecBox == InitBox /\ [][Collide]_vars

(***************************************************************************)
(* A match on Easy, face to face, fighter 2 with enough energy for a       *)
(* counter (30) and with a full bar.                                       *)
(***************************************************************************)
InitEasy ==
  \E style \in Styles, e2 \in {30, 100} :
    MidMatch(style, "Easy", 3000, 3520, -1,
             Stats(style).maxHp, Stats(OtherStyle(style)).maxHp, 0, e2)

TickEasy == gameLoop(CombatInputs, {FALSE}, EasyTicks)

SpecEasy == InitEasy /\ [][TickEasy]_vars

(***************************************************************************)
(* Pausing.  The loop tests gameState.current.paused on every frame, but   *)
(* the component has no code that sets the flag; pause and resume are the  *)
(* lifecycle entry points of the specification, taken here as the plain    *)
(* setters of the flag during a match.                                     *)
(***************************************************************************)
pause ==
  /\ gameStatus = "PLAYING" /\ ~gameOver
  /\ ~paused
  /\ paused' = TRUE
  /\ UNCHANGED <<p1, p2, particles, hitEffects, timer, gameOver, winner, shake,
                 difficulty, gameStatus, winnerMessage, playerChar,
                 selectedDifficulty, ticks, drawn, display, loopStatus,
                 collision>>

resume ==
  /\ paused
  /\ paused' = FALSE
  /\ UNCHANGED <<p1, p2, particles, hitEffects, timer, gameOver, winner, shake,
                 difficulty, gameStatus, winnerMessage, playerChar,
                 selectedDifficulty, ticks, drawn, display, loopStatus,
                 collision>>

TickPause == gameLoop(CombatInputs, {FALSE}, PauseTicks)

NextPause == TickPause \/ pause \/ resume

SpecPause == Init /\ [][NextPause]_vars

(***************************************************************************)
(* The end of a match.  The countdown stands at EndTimer and may fall on   *)
(* any frame (the source decrements it with probability 1/60 per frame);   *)
(* the hit points are those of scenario 2 (120 against 80, either way      *)
(* round), equal, and one clean hit from defeat.                           *)
(***************************************************************************)
EndHps == {<<1200, 800>>, <<800, 1200>>, <<1000, 1000>>, <<LowHp, LowHp>>}

InitEnd ==
  \E style \in Styles, h \in EndHps :
    /\ p1 = [createFighter(1, 3000, FALSE, style) EXCEPT !.hp = h[1]]
    /\ p2 = [createFighter(2, 3520, TRUE, OtherStyle(style)) EXCEPT !.hp = h[2]]
    /\ timer = EndTimer
    /\ gameOver = FALSE
    /\ winner = 0
    /\ paused = FALSE
    /\ difficulty = "Hard"
    /\ gameStatus = "PLAYING"
    /\ winnerMessage = "none"
    /\ playerChar = style
    /\ selectedDifficulty = "Hard"
    /\ ticks = 0
    /\ Quiet

TickEnd == gameLoop(CombatInputs, BOOLEAN, EndTicks)

NextEnd == TickEnd \/ startGameWith(EndTicks) \/ goHome \/ gameLoopEffect \/ senseiResponse

SpecEnd == InitEnd /\ [][NextEnd]_vars

(***************************************************************************)
(* The updateFighter calls a frame can make from the current state, each   *)
(* with the fighter and opponent it was called on (before, opp), its input *)
(* and its result (after.f, after.o).  Fighter 2's call is made on the     *)
(* fighters as fighter 1's call left them; its input was computed by       *)
(* updateAI from the fighters at the start of the frame.                   *)
(***************************************************************************)
InFrame == ~paused /\ loopStatus = "PLAYING" /\ ~gameOver

UpdateOf(who, f, o, input) ==
  [who |-> who, before |-> f, opp |-> o, input |-> input,
   after |-> updateFighter(f, o, input, FALSE)]

FirstUpdates(Ins) == {UpdateOf(1, p1, p2, i) : i \in Ins}

SecondUpdates(Ins) ==
  {UpdateOf(2, u.after.o, u.after.f, j) :
     u \in FirstUpdates(Ins), j \in AIInputs(p2, p1, difficulty)}

UpdatesWith(Ins) == IF InFrame THEN FirstUpdates(Ins) \cup SecondUpdates(Ins) ELSE {}

Updates == UpdatesWith(CombatInputs)

Fighters == {p1, p2}
NeutralStates == {"IDLE", "WALK", "JUMP", "BLOCK", "CROUCH"}
AttackStates == {"ATTACK_LIGHT", "ATTACK_HEAVY"}
ArmedStates == {"ATTACK_LIGHT", "ATTACK_HEAVY", "COUNTER", "ULTIMATE"}

(***************************************************************************)
(* Claims.                                                                 *)
(***************************************************************************)

\* C1: after every completed frame both fighters' hp lies in 0 .. maxHp.
\* (Violated: the damage is subtracted without a clamp.)
C1_HpInRange ==
  \A f \in Fighters : 0 <= f.hp /\ f.hp <= Stats(f.style).maxHp

\* C2: after every completed frame every fighter whose hp is <= 0 is DEAD.
\* (Violated: fighter 1 struck down by fighter 2 is never updated again.)
C2_DeadWhenNoHp ==
  \A f \in Fighters : f.hp <= 0 => f.state = "DEAD"

\* C3: cooldown gate.  On an update where the cooldown is still > 0 after the
\* decrement, a fighter in a neutral state does not enter ATTACK_LIGHT,
\* ATTACK_HEAVY or ULTIMATE, and no fighter's combo index advances.
C3_CooldownGate ==
  \A u \in Updates :
    CooldownTick(u.before).cooldown > 0 =>
      /\ u.before.state \in NeutralStates =>
           u.after.f.state \notin (AttackStates \cup {"ULTIMATE"})
      /\ u.after.f.comboIndex <= u.before.comboIndex

\* C3 witness: a fighter in a neutral state whose cooldown is still running is
\* given an attack input and stays out of the attack states.
C3_Witness ==
  \E u \in Updates :
    /\ u.before.state \in NeutralStates /\ u.before.hp > 0
    /\ CooldownTick(u.before).cooldown > 0
    /\ u.input.atk1 \/ u.input.atk2
    /\ u.after.f.state \notin AttackStates

\* C4: the combo index is 0, 1 or 2, and 0 whenever the fighter is in no
\* attack state.  (Violated: a fighter struck out of a light combo keeps its
\* combo index.)
C4_ComboIndexReset ==
  \A f \in Fighters :
    /\ f.comboIndex \in 0..2
    /\ f.state \notin AttackStates => f.comboIndex = 0

\* The case of C5: a light attack at combo index 0 with the light input held.
HeldLight(u, t) ==
  /\ u.before.hp > 0
  /\ u.before.state = "ATTACK_LIGHT" /\ u.before.comboIndex = 0
  /\ u.before.frameTimer = t
  /\ u.input.atk1

Extended(u) ==
  /\ u.after.f.state = "ATTACK_LIGHT"
  /\ u.after.f.comboIndex = 1
  /\ u.after.f.frameTimer = (IF u.before.style = "Wing Chun" THEN 12 ELSE 18)

\* C5 as claimed: for either style, with the light input held on the update
\* where the remaining timer becomes 9, the combo index becomes 1, the timer
\* the style's combo value and the state stays ATTACK_LIGHT.
C5_Original ==
  \A u \in Updates : HeldLight(u, 10) => Extended(u)

\* C5 amended: that holds for Tai Chi.  For Wing Chun the 10-frame cooldown of
\* the attack entry is still running when the timer becomes 9 (cooldown 7), so
\* nothing is extended there: the combo index stays 0 and the timer 9; the held
\* input extends the combo on the update where the timer becomes 2, the first
\* on which the cooldown has run out.
C5_ComboExtension ==
  \A u \in Updates :
    /\ HeldLight(u, 10) /\ u.before.style = "Tai Chi" => Extended(u)
    /\ HeldLight(u, 10) /\ u.before.style = "Wing Chun" =>
         /\ u.after.f.state = "ATTACK_LIGHT"
         /\ u.after.f.comboIndex = 0
         /\ u.after.f.frameTimer = 9
         /\ u.after.f.cooldown = 7
    /\ HeldLight(u, 3) /\ u.before.style = "Wing Chun" => Extended(u)

\* C5 witness: a Wing Chun fighter holding the light input is refused the
\* extension on the update where its timer becomes 9, its cooldown being 7.
C5_Witness ==
  \E u \in Updates :
    /\ HeldLight(u, 10) /\ u.before.style = "Wing Chun"
    /\ u.after.f.comboIndex = 0 /\ u.after.f.frameTimer = 9
    /\ u.after.f.cooldown = 7

\* C6: ULTIMATE is entered only from a neutral state with energy >= 100 and
\* cooldown <= 0; on entry energy is 0 and the timer 90; a fighter in ULTIMATE
\* has energy 0 after every update of either fighter, and its timer only
\* counts down (the animation is never restarted).
C6_Ultimate ==
  /\ \A f \in Fighters : f.state = "ULTIMATE" => f.energy = 0
  /\ \A u \in Updates :
       /\ u.after.f.state = "ULTIMATE" /\ u.before.state # "ULTIMATE" =>
            /\ u.before.state \in NeutralStates
            /\ u.before.energy >= 100
            /\ CooldownTick(u.before).cooldown <= 0
            /\ u.input.ultimate
            /\ u.after.f.energy = 0
            /\ u.after.f.frameTimer = 90
       /\ u.after.f.state = "ULTIMATE" => u.after.f.energy = 0
       /\ u.after.o.state = "ULTIMATE" => u.after.o.energy = 0
       /\ u.before.state = "ULTIMATE" /\ u.before.hp > 0 =>
            u.after.f.frameTimer = u.before.frameTimer - 1

\* C6 witness: a fighter some frames into its ULTIMATE, the ultimate input
\* held again, while its opponent is attacking it.
C6_Witness ==
  \E u \in Updates :
    /\ u.before.state = "ULTIMATE" /\ u.before.frameTimer < 90
    /\ u.input.ultimate
    /\ u.opp.state \in AttackStates
    /\ u.after.f.state = "ULTIMATE"

\* C7: on every update of a living fighter in ULTIMATE the timer goes down by
\* exactly one, so it reads 20 on one update of an uninterrupted ultimate.  On
\* that update an opponent whose hurtbox overlaps the full-arena box loses
\* exactly 80 hp (800 tenths) and is put in HIT with timer 60; on every other
\* update of the ultimate, and when the hurtbox is outside the arena, the
\* opponent's hp is unchanged.
C7_UltimateDamage ==
  \A u \in Updates :
    u.before.state = "ULTIMATE" /\ u.before.hp > 0 =>
      /\ u.after.f.frameTimer = u.before.frameTimer - 1
      /\ u.before.frameTimer > 1 => u.after.f.state = "ULTIMATE"
      /\ IF u.before.frameTimer = 21 /\ checkCollision(ArenaBox, OppBox(u.opp))
           THEN /\ u.after.o.hp = u.opp.hp - 800
                /\ u.after.o.state = "HIT"
                /\ u.after.o.frameTimer = 60
           ELSE u.after.o.hp = u.opp.hp

\* C7 witness: the update of an ultimate on which the timer becomes 20, with
\* the opponent inside the arena and not already stunned: it loses 80 hp.
C7_Witness ==
  \E u \in Updates :
    /\ u.before.state = "ULTIMATE" /\ u.before.frameTimer = 21
    /\ u.opp.state # "HIT"
    /\ u.after.o.hp = u.opp.hp - 800
    /\ u.after.o.state = "HIT" /\ u.after.o.frameTimer = 60

\* C8: COUNTER is entered only with energy >= 30 immediately before, the entry
\* lowers the energy by exactly 30, and energy is never negative.
C8_CounterCost ==
  /\ \A f \in Fighters : f.energy >= 0
  /\ \A u \in Updates :
       u.after.f.state = "COUNTER" /\ u.before.state # "COUNTER" =>
         /\ u.before.energy >= 30
         /\ u.after.f.energy = u.before.energy - 30
         /\ u.after.f.energy >= 0

\* C8 witness: a fighter that has just entered COUNTER from a full bar.
C8_Witness ==
  \E f \in Fighters : f.state = "COUNTER" /\ f.frameTimer = 20 /\ f.energy = 70

\* C9: after every completed frame only a fighter in ATTACK_LIGHT,
\* ATTACK_HEAVY, COUNTER or ULTIMATE carries a hitbox.  (Violated: being struck
\* out of an attack, and the expiry of an ULTIMATE, leave the hitbox in place.)
C9_HitboxOnlyWhenArmed ==
  \A f \in Fighters : f.hitbox # NoBox => f.state \in ArmedStates

\* C10: a frame in which one fighter's hp falls to <= 0 while the other's is
\* > 0 ends with the match over, the other fighter the winner and in state
\* WIN, and the banner YOU WIN when the winner is fighter 1.
C10_KnockoutEndsMatch ==
  [][ /\ (p2.hp > 0 /\ p2'.hp <= 0 /\ p1'.hp > 0) =>
           /\ gameOver' /\ winner' = 1 /\ p1'.state = "WIN"
           /\ gameStatus' = "GAMEOVER" /\ winnerMessage' = "YOU WIN"
      /\ (p1.hp > 0 /\ p1'.hp <= 0 /\ p2'.hp > 0) =>
           /\ gameOver' /\ winner' = 2 /\ p2'.state = "WIN"
           /\ gameStatus' = "GAMEOVER" ]_vars

\* C10 witness: fighter 1 has just struck fighter 2 down.
C10_Witness ==
  /\ gameOver /\ winner = 1 /\ p1.state = "WIN" /\ p1.hp > 0 /\ p2.hp <= 0
  /\ winnerMessage = "YOU WIN" /\ timer > 0

\* C11: the frame that ends a match records the winner by this precedence:
\* fighter 1 down and fighter 2 not gives 2; fighter 2 down and fighter 1 not
\* gives 1; otherwise the strictly higher hp wins and equal hp gives none.  A
\* winner is recorded only with gameOver set and is in state WIN; a timeout
\* with both standing and unequal hp gives the timeout banner of the winner.
C11_WinnerPrecedence ==
  /\ [](winner # 0 =>
          /\ gameOver
          /\ winner = 1 => p1.state = "WIN"
          /\ winner = 2 => p2.state = "WIN")
  /\ [][ (~gameOver /\ gameOver') =>
           /\ winner' = IF p1'.hp <= 0 /\ p2'.hp > 0 THEN 2
                        ELSE IF p2'.hp <= 0 /\ p1'.hp > 0 THEN 1
                        ELSE IF p1'.hp > p2'.hp THEN 1
                        ELSE IF p2'.hp > p1'.hp THEN 2
                        ELSE 0
           /\ (p1'.hp > 0 /\ p2'.hp > 0) =>
                /\ timer' <= 0
                /\ winnerMessage' = IF p1'.hp > p2'.hp THEN "TIME OUT - YOU WIN"
                                    ELSE IF p2'.hp > p1'.hp THEN "TIME OUT - YOU LOSE"
                                    ELSE "DRAW" ]_vars

\* C11 witness: scenario 2, the countdown has run out with fighter 1 at 120 hp
\* and fighter 2 at 80 hp, and fighter 1 has won on time.
C11_Witness ==
  /\ gameOver /\ timer = 0 /\ p1.hp = 1200 /\ p2.hp = 800
  /\ winner = 1 /\ p1.state = "WIN" /\ winnerMessage = "TIME OUT - YOU WIN"

\* The case of C12: both fighters in an attack state, each carrying a hitbox
\* which, placed where this frame's update places it, overlaps the other's
\* hurtbox.
Armed(f, o) ==
  /\ f.state \in AttackStates
  /\ f.hitbox # NoBox
  /\ checkCollision(PlaceHitbox(f).hitbox, OppBox(o))

MutualHit == InFrame /\ Armed(p1, p2) /\ Armed(p2, p1)

C13_FrozenAfterGameOver ==
  [][(gameOver /\ matchNo' = matchNo) =>
       UNCHANGED <<p1, p2, timer, winner, gameOver, particles, hitEffects>>]_vars

\* A match that is over with live particles, whose running loop still sees
\* PLAYING, after a frame that went through draw and found the shake spent.
C13_Witness ==
  /\ gameOver /\ loopStatus = "PLAYING" /\ drawn
  /\ particles # <<>>
  /\ winner # 0 /\ shake = 0

FreshFighter(f, id, x, style) ==
  /\ f.id = id /\ f.style = style
  /\ f.hp = Stats(style).maxHp /\ f.hp > 0
  /\ f.energy = 0 /\ f.state = "IDLE" /\ f.cooldown = 0 /\ f.comboIndex = 0
  /\ f.frameTimer = 0 /\ f.hitbox = NoBox
  /\ f.x = x /\ f.y = FLOOR_Y /\ f.vx = 0 /\ f.vy = 0

FreshMatch ==
  /\ FreshFighter(p1, 1, 1000, playerChar) /\ ~p1.isAi
  /\ FreshFighter(p2, 2, 6000, OtherStyle(playerChar)) /\ p2.isAi
  /\ timer = 60 /\ ~gameOver /\ winner = 0 /\ ~paused /\ shake = 0
  /\ particles = <<>> /\ hitEffects = <<>>
  /\ difficulty = selectedDifficulty

\* C14: every startGame step (the one that changes matchNo) ends in the fresh
\* match state: both fighters at full hp of their style, energy 0, IDLE,
\* cooldown 0, combo index 0, no hitbox, x = 100 and 600 on the floor,
\* countdown 60, gameOver unset, no winner, not paused, shake 0, no particles
\* and no hit effects, fighter 1 human and fighter 2 AI with the other style.
C14_StartGameFresh == [][matchNo' # matchNo => FreshMatch']_vars

\* A rematch started from a finished match: fresh while the flavor text of
\* the match before is still awaited and the old loop has not been replaced.
C14_Witness ==
  /\ matchNo > 1 /\ FreshMatch
  /\ gameStatus = "PLAYING" /\ loopStatus = "GAMEOVER"
  /\ pending # {}

\* The simulation state the loop advances.
simulation == <<p1, p2, timer, particles, hitEffects, gameOver, winner>>

\* C15: a step taken while the match is and stays paused (a scheduled frame)
\* leaves fighters, countdown, effects, gameOver and winner unchanged, and the
\* frame has gone through draw.
C15_PausedFrame ==
  [][(paused /\ paused') => (UNCHANGED simulation /\ drawn')]_vars

\* The match state and the screen the match is shown on.
match == <<gameState, gameStatus, winnerMessage>>

\* A step in which a flavor-text response arrives.
Arrival == pending' # pending /\ pending' \subseteq pending

\* C16: the flavor-text request is fire-and-forget.  The frame that detects
\* the end sets gameOver, the winner and GAMEOVER in one step, and issues a
\* request exactly when there is a winner (never on a draw), leaving it
\* pending; no other step issues one; with a request pending on the game-over
\* screen startGame is enabled; and the arrival of a response changes no
\* field of the match state, whatever the match is doing by then.
C16_FireAndForget ==
  /\ [][(~gameOver /\ gameOver') =>
          /\ gameStatus' = "GAMEOVER"
          /\ (winner' # 0 <=> pending' = pending \cup {[match |-> matchNo]})
          /\ (winner' = 0 => pending' = pending /\ senseiWisdom' = "none")
          /\ (winner' # 0 => [match |-> matchNo] \in pending'
                               /\ senseiWisdom' = "Thinking...")]_vars
  /\ [][~(~gameOver /\ gameOver') => pending' \subseteq pending]_vars
  /\ []((pending # {} /\ gameStatus = "GAMEOVER" /\ loopStatus = "GAMEOVER")
          => ENABLED startGameWith(EndTicks))
  /\ [][Arrival => UNCHANGED match]_vars

\* The response to the first match's request arrives while the rematch is
\* being played: its text is on display in a running second match.
C16_Witness ==
  /\ matchNo = 2 /\ ~gameOver /\ loopStatus = "PLAYING" /\ drawn
  /\ pending = {} /\ lastResponse # NoResponse
  /\ senseiWisdom # "none"

\* The failure outcomes of the external call: it threw, or its response
\* carries no text.
Failure(response) == response.thrown \/ response.text \in {"", Undefined}

\* C17 as stated: whenever a response arrives the displayed value is a
\* non-empty string, and after a failure outcome it is the value that every
\* failure outcome gives (one fixed fallback string).
C17_Original ==
  [][Arrival =>
       /\ senseiWisdom' \notin {"", Undefined}
       /\ (Failure(lastResponse') =>
             \A r \in Responses(matchNo) :
               Failure(r) => getSenseiFeedback(r) = senseiWisdom')]_vars

\* C17, amended: whenever a response arrives the displayed value is a
\* non-empty string: the returned text when there is one, and otherwise one
\* of two fixed fallback strings, one for a thrown error and one for a
\* response without text.
C17_TwoFallbacks ==
  [][Arrival =>
       /\ senseiWisdom' \notin {"", Undefined}
       /\ (lastResponse'.thrown =>
             senseiWisdom' = "Victory is its own reward. The API spirits are quiet today.")
       /\ (~lastResponse'.thrown /\ Failure(lastResponse') =>
             senseiWisdom' = "The mind must be sharper than the fist.")
       /\ (~Failure(lastResponse') => senseiWisdom' = lastResponse'.text)]_vars

\* The call returned an empty text and the fallback for it is on display.
C17_Witness ==
  /\ ~lastResponse.thrown /\ lastResponse.text = ""
  /\ senseiWisdom = "The mind must be sharper than the fist."

Lives(list) == {list[i].life : i \in 1..Len(list)}

\* C18: in every state a frame leaves behind, no particle and no hit effect
\* has life <= 0, and every entry has been aged at least once (an entry
\* spawned in a frame is aged in that frame).
C18_NoDeadEffects ==
  /\ \A l \in Lives(particles) : 0 < l /\ l < 100
  /\ \A l \in Lives(hitEffects) : 0 < l /\ l < 100

\* A hit effect on the last frame of its life, ahead of younger ones in the
\* list, with particles in flight: the next frame removes the first entry
\* while iterating over the others.
C18_Witness ==
  /\ Len(hitEffects) >= 2 /\ hitEffects[1].life = 1
  /\ \E i \in 2..Len(hitEffects) : hitEffects[i].life > 1
  /\ Len(particles) > 1

\* energy + n, capped at the style's maxEnergy.
Gain(f, n) == Min(Stats(f.style).maxEnergy, f.energy + n)

\* What one updateFighter call may do to the energy of the fighter it updates
\* (f before, f1 after) and of its opponent (o before, o1 after).
EnergyStep(f, f1, o, o1) ==
  \/ f1.energy = f.energy /\ o1.energy = o.energy
  \/ f1.energy = Gain(f, 10) /\ o1.energy = Gain(o, 15) /\ o1.hp < o.hp
  \/ f1.energy = Gain(f, 5) /\ o1.energy = Gain(o, 5) /\ o.state = "BLOCK"
  \/ /\ f1.energy = f.energy - 30 /\ o1.energy = o.energy
     /\ f.state # "COUNTER" /\ f1.state = "COUNTER"
  \/ /\ f1.energy = 0 /\ o1.energy = o.energy
     /\ f.state # "ULTIMATE" /\ f1.state = "ULTIMATE"

\* C19: both fighters' energy is within 0..maxEnergy after every frame, and
\* every updateFighter call changes energy only by the capped gains of a
\* clean hit (+10 attacker, +15 defender) or of a blocked hit (+5 both), by
\* -30 on entering COUNTER, or by the reset to 0 on entering ULTIMATE.
C19_Energy ==
  /\ \A f \in Fighters : 0 <= f.energy /\ f.energy <= Stats(f.style).maxEnergy
  /\ \A u \in Updates :
       /\ EnergyStep(u.before, u.after.f, u.opp, u.after.o)
       /\ 0 <= u.after.f.energy /\ u.after.f.energy <= Stats(u.before.style).maxEnergy
       /\ 0 <= u.after.o.energy /\ u.after.o.energy <= Stats(u.opp.style).maxEnergy

\* A clean hit on a fighter whose bar is within 15 of full, by a fighter
\* whose bar is within 10 of full: both gains are cut off at maxEnergy.
C19_Witness ==
  \E u \in Updates :
    /\ u.opp.energy > 85 /\ u.after.o.hp < u.opp.hp /\ u.after.o.state = "HIT"
    /\ u.after.o.energy = 100
    /\ u.before.energy > 90 /\ u.after.f.energy = 100

\* C20: on Easy no input vector the AI can produce has the block input
\* together with an attack input, and fighter 2 is never in COUNTER.
C20_EasyNeverCounters ==
  difficulty = "Easy" =>
    /\ \A in \in AIInputs(p2, p1, difficulty) : ~(in.down /\ (in.atk1 \/ in.atk2))
    /\ p2.state # "COUNTER"

\* The AI on Easy has the energy for a counter, the player is attacking
\* within reach, and the block gate can pass: the AI blocks and only blocks.
C20_Witness ==
  /\ difficulty = "Easy" /\ p2.energy >= 30 /\ p2.state \in NeutralStates
  /\ p1.state \in AttackStates /\ ticks > 0
  /\ \E in \in AIInputs(p2, p1, difficulty) : in.down /\ ~in.atk1 /\ ~in.atk2

\* C21: for all boxes a and b with corners and sizes in 0..MaxCoord, the
\* result of checkCollision(a, b) is that of checkCollision(b, a).
C21_Commutative ==
  collision.returned =>
    collision.result = checkCollision(collision.r2, collision.r1)

\* A call on two boxes that touch along an edge has returned: no overlap.
C21_Witness ==
  /\ collision.returned /\ ~collision.result
  /\ collision.r1 # collision.r2
  /\ collision.r1.w > 0 /\ collision.r1.h > 0 /\ collision.r2.w > 0 /\ collision.r2.h > 0
  /\ collision.r1.x = collision.r2.x + collision.r2.w
  /\ collision.r1.y = collision.r2.y

\* One frame of a match that goes on.
Played == ticks' # ticks /\ ~gameOver /\ ~gameOver'

\* What a frame does to a fighter in ULTIMATE that nothing interrupts: the
\* timer goes down by one, the fighter stays where it is with velocity 0, and
\* is in ULTIMATE until the timer is spent, then IDLE.
UltimateFrame(f, f1) ==
  /\ f1.frameTimer = f.frameTimer - 1
  /\ f1.x = f.x /\ f1.y = f.y /\ f1.vx = 0 /\ f1.vy = 0
  /\ f1.state = (IF f.frameTimer > 1 THEN "ULTIMATE" ELSE "IDLE")

\* C22: an ULTIMATE lasts a fixed 90 frames.  Entered with the timer at 90,
\* it counts down by one on every frame of the match with the fighter
\* immobile, ends in IDLE when the timer is spent, and nothing the opponent
\* does takes the fighter out of ULTIMATE before.  (Violated: at its damage
\* frame an ultimate puts the opponent in HIT whatever its state, another
\* ULTIMATE included.)
C22_UltimateUninterrupted ==
  [][Played =>
       /\ (p1.state = "ULTIMATE" => UltimateFrame(p1, p1'))
       /\ (p2.state = "ULTIMATE" => UltimateFrame(p2, p2'))
       /\ (p1.state # "ULTIMATE" /\ p1'.state = "ULTIMATE" => p1'.frameTimer = 90)
       /\ (p2.state # "ULTIMATE" /\ p2'.state = "ULTIMATE" => p2'.frameTimer = 90)]_vars

OnFloor(f) == f.y = FLOOR_Y

\* f faces o and o's body starts within the width of the counter's hitbox
\* (100) in front of f's body.
Adjacent(f, o) ==
  IF f.facing = 1
    THEN f.x <= o.x /\ o.x - (f.x + HURT_W) < 1000
    ELSE o.x <= f.x /\ f.x - (o.x + HURT_W) < 1000

\* C23: a counter can land.  On an update of a fighter in COUNTER whose
\* hitbox is still armed, standing on the floor adjacent to and facing an
\* opponent that is on the floor and neither HIT nor DEAD, the opponent loses
\* exactly 25 hp and is put in HIT with timer 30, and the hitbox is cleared.
\* (Violated: the counter's hitbox stays at the top left corner of the arena,
\* where no fighter on the floor is.)
C23_CounterLands ==
  \A u \in Updates :
    /\ u.before.state = "COUNTER" /\ u.before.hitbox # NoBox
    /\ OnFloor(u.before) /\ OnFloor(u.opp) /\ Adjacent(u.before, u.opp)
    /\ u.opp.state \notin {"HIT", "DEAD"}
    => /\ u.after.o.hp = u.opp.hp - 250
       /\ u.after.o.state = "HIT" /\ u.after.o.frameTimer = 30
       /\ u.after.f.hitbox = NoBox

\* C24: a fighter whose cooldown is still > 0 after this update's decrement
\* does not enter COUNTER on this update, whatever its input and energy.
\* (Violated: the counter entry tests the input and the energy only.)
C24_CooldownGatesCounter ==
  \A u \in Updates :
    u.before.state # "COUNTER" /\ CooldownTick(u.before).cooldown > 0
      => u.after.f.state # "COUNTER"

\* The update u is that of a living attacker in ATTACK_LIGHT or ATTACK_HEAVY
\* whose timer stays > 0 after the decrement, with no combo extension on this
\* update, and whose armed hitbox, placed, overlaps the opponent's hurtbox.
Strikes(u) ==
  /\ u.before.hp > 0
  /\ u.before.frameTimer > 1
  /\ ~ComboCond([CooldownTick(u.before) EXCEPT !.frameTimer = @ - 1], u.input)
  /\ Armed(u.before, u.opp)

\* C25: when such an update finds the opponent in none of BLOCK, HIT, DEAD,
\* COUNTER, ULTIMATE, the opponent loses exactly the damage (damageHeavy for a
\* heavy attack; damageLight for a light one, times 1.5 at combo index 2) and
\* is in HIT with timer 12, the attacker gains 10 energy and the opponent 15
\* (capped at maxEnergy), and the hitbox is cleared.  When it finds the
\* opponent in HIT, DEAD, COUNTER or ULTIMATE, the opponent's hp, state and
\* energy are unchanged.
C25_CleanHit ==
  \A u \in Updates :
    Strikes(u) =>
      /\ u.opp.state \notin {"BLOCK", "HIT", "DEAD", "COUNTER", "ULTIMATE"} =>
            /\ u.opp.hp - u.after.o.hp =
                 (IF u.before.state = "ATTACK_HEAVY"
                    THEN Stats(u.before.style).damageHeavy
                  ELSE IF u.before.comboIndex = 2
                    THEN (Stats(u.before.style).damageLight * 3) \div 2
                  ELSE Stats(u.before.style).damageLight)
            /\ u.after.o.state = "HIT" /\ u.after.o.frameTimer = 12
            /\ u.after.f.energy = Gain(u.before, 10)
            /\ u.after.o.energy = Gain(u.opp, 15)
            /\ u.after.f.hitbox = NoBox
      /\ u.opp.state \in {"HIT", "DEAD", "COUNTER", "ULTIMATE"} =>
            /\ u.after.o.hp = u.opp.hp
            /\ u.after.o.state = u.opp.state
            /\ u.after.o.energy = u.opp.energy

\* The third hit of a light combo is about to land on an opponent that has
\* recovered from the hits before: it takes one and a half times damageLight.
C25_Witness ==
  \E u \in Updates :
    /\ Strikes(u) /\ u.before.state = "ATTACK_LIGHT" /\ u.before.comboIndex = 2
    /\ u.opp.state = "IDLE" /\ u.opp.hp < Stats(u.opp.style).maxHp
    /\ u.after.o.state = "HIT"
    /\ 2 * (u.opp.hp - u.after.o.hp) = 3 * Stats(u.before.style).damageLight

\* C26: when the collision check of an attack finds the opponent in BLOCK,
\* the opponent loses exactly a tenth of the attack's damage and stays in
\* BLOCK, both fighters gain 5 energy (capped at maxEnergy), the opponent is
\* pushed with speed 5 the way the attacker faces, and the hitbox is cleared,
\* so that this hitbox meets nothing again.
C26_BlockedHit ==
  \A u \in Updates :
    Strikes(u) /\ u.opp.state = "BLOCK" =>
      /\ 10 * (u.opp.hp - u.after.o.hp) =
           (IF u.before.state = "ATTACK_HEAVY"
              THEN Stats(u.before.style).damageHeavy
            ELSE IF u.before.comboIndex = 2
              THEN (Stats(u.before.style).damageLight * 3) \div 2
            ELSE Stats(u.before.style).damageLight)
      /\ u.after.o.state = "BLOCK"
      /\ u.after.f.energy = Gain(u.before, 5)
      /\ u.after.o.energy = Gain(u.opp, 5)
      /\ u.after.o.vx = u.before.facing * 50
      /\ u.after.f.hitbox = NoBox
      /\ u.after.f.state = u.before.state

\* A heavy attack is about to meet a blocking opponent: a tenth of
\* damageHeavy is taken and the attacker goes on without its hitbox.
C26_Witness ==
  \E u \in Updates :
    /\ Strikes(u) /\ u.opp.state = "BLOCK" /\ u.before.state = "ATTACK_HEAVY"
    /\ u.opp.hp - u.after.o.hp = Stats(u.before.style).damageHeavy \div 10
    /\ u.after.f.hitbox = NoBox /\ u.after.o.state = "BLOCK"

\* C27: at most one hit per armed hitbox.  On every update of a fighter in
\* ATTACK_LIGHT or ATTACK_HEAVY: the opponent's hp is reduced only if the
\* hitbox was armed, and then the hitbox is cleared by the same update; a
\* cleared hitbox is armed again only by a combo extension, which advances
\* the combo index of a light attack from below 2 and reduces no hp; and the
\* combo index of a light attack is 0, 1 or 2.  Hence one heavy attack
\* damages at most once and one light combo at most three times.
C27_OneHitPerHitbox ==
  \A u \in Updates :
    u.before.state \in AttackStates =>
      /\ u.after.o.hp < u.opp.hp =>
           u.before.hitbox # NoBox /\ u.after.f.hitbox = NoBox
      /\ u.before.hitbox = NoBox /\ u.after.f.hitbox # NoBox =>
           /\ u.before.state = "ATTACK_LIGHT" /\ u.after.f.state = "ATTACK_LIGHT"
           /\ u.before.comboIndex < 2
           /\ u.after.f.comboIndex = u.before.comboIndex + 1
           /\ u.after.o.hp = u.opp.hp
      /\ u.before.state = "ATTACK_LIGHT" => u.before.comboIndex \in 0..2

\* The third hit of one light combo: two hits have landed, the second
\* extension has armed the hitbox again, and this update lands it.
C27_Witness ==
  \E u \in Updates :
    /\ u.before.state = "ATTACK_LIGHT" /\ u.before.comboIndex = 2
    /\ u.before.hitbox # NoBox
    /\ u.opp.hp = Stats(u.opp.style).maxHp - 2 * Stats(u.before.style).damageLight
    /\ u.after.o.hp < u.opp.hp
    /\ u.after.f.hitbox = NoBox

\* C28: on a clean hit the opponent's velocity is the attacker's facing times
\* 25 exactly when the attacker is Wing Chun in ATTACK_HEAVY, times 20
\* exactly when it is Tai Chi in ATTACK_LIGHT at combo index 2, and times 8
\* otherwise; a Tai Chi heavy attack knocks back by 8.  (Violated: the
\* override to 20 tests the style and the combo index, not the state, and a
\* fighter struck out of a light combo keeps its combo index into its next
\* heavy attack.)
C28_Knockback ==
  \A u \in Updates :
    Strikes(u) /\ u.opp.state \notin CleanHitExcluded =>
      u.after.o.vx = u.before.facing *
        (IF u.before.style = "Wing Chun" /\ u.before.state = "ATTACK_HEAVY" THEN 250
         ELSE IF u.before.style = "Tai Chi" /\ u.before.state = "ATTACK_LIGHT"
                 /\ u.before.comboIndex = 2 THEN 200
         ELSE 80)

\* C29: after every completed tick each fighter is at or above the floor
\* line, y <= FLOOR_Y, whatever its state.  (Violated: the attack branch and
\* the HIT branch apply gravity while y < FLOOR_Y and do not clamp, so a
\* fighter that comes down in one of these states ends the tick below the
\* floor line.)
C29_FloorClamp == p1.y <= FLOOR_Y /\ p2.y <= FLOOR_Y

\* The step from d to d1 of a defender facing attacker a, over one played
\* tick, as a stun of 12 ticks requires it: struck by a light or heavy attack
\* (a was attacking, d was not in HIT and has lost hp), d ends the tick of the
\* hit in HIT with 12 on its timer; in HIT and not struck again, it ends
\* each further tick in HIT with one less, and in IDLE once 0 is reached.
StunStep(d, d1, a) ==
  /\ a.state \in AttackStates /\ d.state # "HIT" /\ d1.state = "HIT" /\ d1.hp < d.hp
       => d1.frameTimer = 12
  /\ d.state = "HIT" /\ d1.hp = d.hp /\ d.hp > 0
       => IF d.frameTimer > 1
            THEN d1.state = "HIT" /\ d1.frameTimer = d.frameTimer - 1
            ELSE d1.state = "IDLE"

\* C30: the stun after a clean light or heavy hit is the same for both
\* fighters: the defender is in HIT at the end of exactly 12 consecutive
\* ticks, the first being the tick of the hit, and IDLE at the end of the
\* next, if it is not struck again and the match goes on.  (Violated:
\* fighter 2 is updated after fighter 1 in the same tick, so when fighter 1
\* lands the hit fighter 2's own update already counts its timer down to 11
\* in the tick of the hit; fighter 2 is in HIT at the end of 11 ticks.)
C30_SameStun ==
  [][Played => StunStep(p1, p1', p2) /\ StunStep(p2, p2', p1)]_vars

\* The updates of this frame with every input vector for fighter 1, and
\* those of fighter 2 that follow the explored ones.
NeutralUpdates ==
  IF InFrame THEN FirstUpdates(InputVectors) \cup SecondUpdates(NeutralInputs) ELSE {}

\* C31: transition precedence.  On every update of a living fighter in IDLE,
\* WALK, JUMP or BLOCK, for every input vector, the state after the update
\* is: ULTIMATE on the ultimate input with energy >= 100 and cooldown <= 0;
\* otherwise COUNTER on block with light or heavy and energy >= 30; otherwise
\* ATTACK_LIGHT on light with cooldown <= 0 (combo index 0, timer 20 for Tai
\* Chi and 12 for Wing Chun, cooldown 10); otherwise ATTACK_HEAVY on heavy
\* with cooldown <= 0 (timer 30, cooldown 40); otherwise BLOCK with vx = 0 on
\* block; otherwise JUMP on jump while on the floor; otherwise WALK on left
\* or right, and IDLE without.  The cooldown is the one after this update's
\* decrement.
C31_Precedence ==
  LET Precedence(f, input) ==
        IF input.ultimate /\ f.energy >= 100 /\ f.cooldown <= 0 THEN "ULTIMATE"
        ELSE IF input.down /\ (input.atk1 \/ input.atk2) /\ f.energy >= 30
          THEN "COUNTER"
        ELSE IF input.atk1 /\ f.cooldown <= 0 THEN "ATTACK_LIGHT"
        ELSE IF input.atk2 /\ f.cooldown <= 0 THEN "ATTACK_HEAVY"
        ELSE IF input.down THEN "BLOCK"
        ELSE IF input.up /\ f.y >= FLOOR_Y THEN "JUMP"
        ELSE IF input.left \/ input.right THEN "WALK"
        ELSE "IDLE"
  IN
  \A u \in NeutralUpdates :
    u.before.state \in {"IDLE", "WALK", "JUMP", "BLOCK"} /\ u.before.hp > 0 =>
      /\ u.after.f.state = Precedence(CooldownTick(u.before), u.input)
      /\ u.after.f.state = "ATTACK_LIGHT" =>
           /\ u.after.f.comboIndex = 0 /\ u.after.f.cooldown = 10
           /\ u.after.f.frameTimer = (IF u.before.style = "Tai Chi" THEN 20 ELSE 12)
      /\ u.after.f.state = "ATTACK_HEAVY" =>
           u.after.f.frameTimer = 30 /\ u.after.f.cooldown = 40
      /\ u.after.f.state = "BLOCK" => u.after.f.vx = 0

\* Every key is held by a fighter standing with a full energy bar while the
\* cooldown of its last heavy attack is still running: the ultimate and both
\* attacks are gated, and the counter takes precedence over block, jump and
\* walk.
C31_Witness ==
  \E u \in NeutralUpdates :
    /\ u.who = 1 /\ u.before.state = "IDLE" /\ u.before.y = FLOOR_Y
    /\ u.before.energy >= 100 /\ u.before.cooldown > 1
    /\ u.input = [left |-> TRUE, right |-> TRUE, up |-> TRUE, down |-> TRUE,
                  atk1 |-> TRUE, atk2 |-> TRUE, ultimate |-> TRUE]
    /\ u.after.f.state = "COUNTER"

\* C32: every match terminates.  The countdown is an integer in 0..60; within
\* a match it never increases and changes by at most 1 per tick; after every
\* tick, a countdown at 0 or a fighter with hp <= 0 means gameOver was set by
\* that tick; and when frames keep running and the countdown draw passes
\* infinitely often, gameOver eventually becomes true.
C32_Terminates ==
  /\ [](timer \in 0..MATCH_SECONDS)
  /\ [][matchNo' = matchNo => timer' <= timer /\ timer - timer' <= 1]_vars
  /\ [](timer = 0 \/ p1.hp <= 0 \/ p2.hp <= 0 => gameOver)
  /\ <>gameOver

\* The countdown has run out with both fighters standing and unhurt: the
\* match is over by timeout.
C32_Witness ==
  /\ gameOver /\ timer = 0
  /\ p1.hp = Stats(p1.style).maxHp /\ p2.hp = Stats(p2.style).maxHp

\* C33: the displayed flavor text belongs to the current match.  When the
\* response to a request issued by an earlier match arrives, the display
\* value is left as it is.  (Violated: the promise's continuation is
\* setSenseiWisdom itself; it does not know which match asked.)
C33_CurrentMatchOnly ==
  [][\A rq \in pending :
       pending' = pending \ {rq} /\ rq.match < matchNo
         => senseiWisdom' = senseiWisdom]_vars

\* C34: after every completed tick each fighter is inside the arena
\* horizontally, 0 <= x <= CANVAS_WIDTH - HURT_W, whatever its state.
\* (Violated: the HIT branch and the attack branch add vx to x and do not
\* clamp, so a fighter knocked back near a wall slides through it.)
C34_InArena ==
  \A f \in Fighters : 0 <= f.x /\ f.x <= CANVAS_WIDTH - HURT_W

\* C35: in no reachable state do both fighters have hp <= 0.  So a match
\* over with a fighter at hp <= 0 has a winner, the other fighter, whose hp is
\* > 0; and a match over without a winner ended on the countdown with both
\* fighters standing at equal hp.
C35_NoDoubleKnockout ==
  /\ ~(p1.hp <= 0 /\ p2.hp <= 0)
  /\ gameOver /\ (p1.hp <= 0 \/ p2.hp <= 0) =>
       /\ winner \in {1, 2}
       /\ winner = 1 => p2.hp <= 0 /\ p1.hp > 0 /\ p1.hp > p2.hp
       /\ winner = 2 => p1.hp <= 0 /\ p2.hp > 0 /\ p2.hp > p1.hp
  /\ gameOver /\ winner = 0 =>
       timer = 0 /\ p1.hp = p2.hp /\ p1.hp > 0

\* Both fighters were one hit from defeat and both had started an attack:
\* fighter 1's hit landed first, fighter 2 is down with the hitbox of its own
\* attack still defined, and fighter 1 has won with the hp it had.
C35_Witness ==
  /\ gameOver /\ winner = 1 /\ timer > 0
  /\ p1.hp = LowHp /\ p2.hp <= 0 /\ p2.state = "DEAD"
  /\ p2.hitbox # NoBox /\ p2.hitbox.w > 0
====
